---- MODULE Spec2Model ----
(***************************************************************************)
(* Model of the meshcoretomqtt bridge runtime (src/bridge).                *)
(*                                                                         *)
(* Two parts share one state:                                              *)
(*   - the remote-serial command handler (remote_serial.py), driven by the *)
(*     message callbacks of the broker clients' network tasks;             *)
(*   - the broker manager (mqtt_manager.py) with the startup and main loop *)
(*     of runner.py, driven by the main task and by the connect and        *)
(*     disconnect callbacks of the clients' network tasks.                 *)
(* SpecCmd explores the first part over a fixed broker list, Spec the      *)
(* second part with the command handlers idle.                             *)
(***************************************************************************)
EXTENDS Integers, Sequences, FiniteSets, TLC

VARIABLES
    \* ---- configuration and identity (BridgeState.__init__, runner.run) ----
    config,                            \* config['broker']: per broker, enabled or not
    remote_serial_enabled,
    remote_serial_allowed_companions,
    repeater_priv_key,                 \* TRUE iff the device disclosed its private key
    device,                            \* "open" or "none" (state.device is None)
    client_id,                         \* the name, the prefix and the client id made of them
    \* ---- command handler ----
    remote_serial_nonces,              \* dict nonce -> timestamp
    clock,                             \* int(time.time()) as the command handler reads it
    handler,                           \* per broker: the message callback in progress
    exec_count,                        \* number of execute_command calls made
    exec_at,                           \* per nonce: acceptance time of its last execution, 0 if none
    executed,                          \* the envelopes execute_command was called for, where followed
    last_response,                     \* publish calls of the latest publish_serial_response
    resp_count,                        \* number of response publish calls made
    last_log,                          \* the latest line the command handler logged
    \* ---- broker manager ----
    mqtt_clients,                      \* state.mqtt_clients: list of broker records
    mqtt_connected,
    connection_events,
    should_exit,
    reconnect_delay,
    main,                              \* the main task: position and locals
    \* ---- observer ----
    history,                           \* per broker, how its latest connections ended
    \* ---- device link ----
    serial,                            \* the serial connections, their locks and their callers
    \* ---- publishing ----
    broker_qos,                        \* per broker: qos of its configuration
    broker_retain,                     \* per broker: retain of its configuration (true if not given)
    stats,                             \* state.stats: publish_failures
    published,                         \* the publish calls of the latest publishing operation
    parser,                            \* debug mode, topics, last_raw and the lines parsed
    \* ---- broker credentials ----
    broker_auth,                       \* per broker: auth and tls of its configuration
    token_cache,                       \* state.token_cache, with the number of tokens minted
    credentials,                       \* what the latest _generate_auth_credentials returned
    \* ---- keepalive tasks ----
    ws_ping_threads,                   \* per broker: its entry in state.ws_ping_threads
    ping_tasks                         \* the keepalive tasks (background.websocket_ping_loop)

setupVars == <<config, remote_serial_enabled, remote_serial_allowed_companions,
               repeater_priv_key, device, client_id>>
\* what neither the command handler nor the broker manager changes
pubVars == <<broker_qos, broker_retain, stats, published, parser>>
tokenVars == <<broker_auth, token_cache, credentials>>
\* what the broker manager changes of the above
pingVars == <<ws_ping_threads, ping_tasks>>
bookVars == <<stats, pingVars>>
\* and what it does not
fixedVars == <<setupVars, serial, broker_qos, broker_retain, published, parser,
               tokenVars>>
\* the same but for the token cache
nonTokenVars == <<setupVars, serial, broker_qos, broker_retain, published, parser,
                  broker_auth>>
uncachedVars == <<nonTokenVars, credentials>>
cfgVars == <<setupVars, serial, pubVars, tokenVars, pingVars>>
cmdVars == <<remote_serial_nonces, clock, handler, exec_count, exec_at, executed,
             last_response, resp_count, last_log>>
mgrVars == <<mqtt_clients, mqtt_connected, connection_events, should_exit,
             reconnect_delay, main, history>>
vars == <<cfgVars, cmdVars, mgrVars>>
nonSerialVars == <<setupVars, pubVars, tokenVars, pingVars, cmdVars, mgrVars>>

\* the keepalive tasks where they are not followed
NoPingTasks == [on |-> FALSE, tasks |-> <<>>]

(***************************************************************************)
(* Bounds of the exploration.                                              *)
(***************************************************************************)
MaxClock == 3            \* last second the command handler's clock reaches
MaxExec == 2             \* execute_command calls explored
MaxResponses == 4        \* response publish calls explored
NonceTtl == 1            \* remote_serial.nonce_ttl of the explored configuration
MaxDeviations == 1       \* fields in which an explored envelope departs from a valid one

\* config['broker'] declares two brokers, with indices 0 and 1
Brokers == {0, 1}
NumBrokers == Cardinality(Brokers)

Min(a, b) == IF a < b THEN a ELSE b
Max(a, b) == IF a < b THEN b ELSE a

\* the value of a count that a specification does not keep
NotCounted == -1

(***************************************************************************)
(* Device link (serial_connection.py).  Every connect() makes a connection *)
(* object with a lock of its own over the one serial port; the main task   *)
(* reads lines, the stats reporter runs get_device_stats and the command   *)
(* handlers of the brokers' network tasks run execute_command, each on the *)
(* object it found in state.device.                                        *)
(***************************************************************************)
MaxDevices == 2          \* connection objects made in a run
NumStatCommands == 3     \* stats-core, stats-radio, stats-packets

Requesters == {"stats", "cmd0", "cmd1"}
LinkTasks == {"main"} \cup Requesters
NoDevice == 0
Devices == 1..MaxDevices

IdleTask == [pc |-> "idle", dev |-> NoDevice, n |-> 0]

\* the getters of the claimed contract, and execute_command
Getters == {"get_name", "get_pubkey", "get_privkey", "get_radio_info",
            "get_firmware_version", "get_board_type"}
Methods == Getters \cup {"execute_command"}
MaxQueries == 3          \* calls followed on one connection object

\* no call of a getter or of execute_command is followed
NoQuery == [method |-> "none", pc |-> "idle", io_error |-> FALSE,
            result |-> "none", calls |-> 0]

\* the link once runner.run has connected the device and queried it
InitLink ==
    [current |-> 1, made |-> 1,
     open |-> [d \in Devices |-> d = 1],
     lock |-> [d \in Devices |-> "free"],
     task |-> [t \in LinkTasks |-> IdleTask],
     query |-> NoQuery]

\* the task is back from its call
Returned(t, pc) == [serial.task EXCEPT ![t] = [IdleTask EXCEPT !.pc = pc]]

\* `with self._lock` is left
Released(d) == [serial.lock EXCEPT ![d] = "free"]

\* stats_logging_loop: `if state.device:` finds a connection object
StatsCheck ==
    /\ serial.task["stats"].pc = "idle"
    /\ serial.current # NoDevice
    /\ serial' = [serial EXCEPT !.task["stats"].pc = "checked"]
    /\ UNCHANGED nonSerialVars

\* where the task calls from: the stats reporter after its check
CallsFrom(t) == IF t = "stats" THEN "checked" ELSE "idle"

\* if state.device: state.device.read_line() / execute_command(): the task
\* picks up the connection object; state.device.get_device_stats(): the
\* reporter reads state.device again, and on None its AttributeError, which
\* nothing in stats_logging_loop catches, ends the task
Call(t) ==
    /\ serial.task[t].pc = CallsFrom(t)
    /\ IF serial.current = NoDevice
       THEN /\ t = "stats"
            /\ serial' = [serial EXCEPT !.task = Returned(t, "dead")]
       ELSE serial' = [serial EXCEPT !.task[t] = [pc |-> "waiting",
                                                 dev |-> serial.current, n |-> 1]]
    /\ UNCHANGED nonSerialVars

\* with self._lock: entered
Acquire(t) ==
    /\ serial.task[t].pc = "waiting"
    /\ serial.lock[serial.task[t].dev] = "free"
    /\ serial' = [serial EXCEPT !.lock[serial.task[t].dev] = t, !.task[t].pc = "locked"]
    /\ UNCHANGED nonSerialVars

\* reset buffers and write the command bytes (_send_unlocked, execute_command)
WriteRequest(t) ==
    /\ t \in Requesters
    /\ serial.task[t].pc = "locked"
    /\ serial.open[serial.task[t].dev]
    /\ serial' = [serial EXCEPT !.task[t].pc = "written"]
    /\ UNCHANGED nonSerialVars

\* the lock's holder after the response to request n was read: get_device_stats
\* keeps the lock over its three subcommands
HolderAfterRead_released(t, n) == "free"

HolderAfterRead(t, n) == IF t = "stats" /\ n < NumStatCommands THEN t ELSE "free"

\* the response is read; get_device_stats goes on to its next subcommand
ReadResponse(t) ==
    /\ t \in Requesters
    /\ serial.task[t].pc = "written"
    /\ LET d == serial.task[t].dev
           n == serial.task[t].n
       IN  serial' = [serial EXCEPT
                       !.lock[d] = HolderAfterRead(t, n),
                       !.task[t] = IF t = "stats" /\ n < NumStatCommands
                                   THEN [@ EXCEPT !.pc = "locked", !.n = n + 1]
                                   ELSE IdleTask]
    /\ UNCHANGED nonSerialVars

\* where the exception of the port leaves the task: the main task in its
\* OSError handler, a command handler back from execute_command, which
\* catches it, and the stats reporter ended, get_device_stats and
\* stats_logging_loop catching nothing
AfterRaise(t) ==
    IF t = "main" THEN "recover" ELSE IF t = "stats" THEN "dead" ELSE "idle"

\* port I/O raises (the port is closed, or a serial error): the lock is left
Raises(t) ==
    /\ serial.task[t].pc \in {"locked", "written"}
    /\ serial' = [serial EXCEPT !.lock[serial.task[t].dev] = "free",
                            !.task = Returned(t, AfterRaise(t))]
    /\ UNCHANGED nonSerialVars

\* read_line under the lock: a line (got), or nothing waiting, upon which
\* runner.run calls seconds_since_activity(), which RealSerialConnection does
\* not have, and leaves the loop through `except Exception` for _cleanup
ReadLine(got) ==
    /\ serial.task["main"].pc = "locked"
    /\ serial.open[serial.task["main"].dev]
    /\ serial' = [serial EXCEPT !.lock[serial.task["main"].dev] = "free",
                            !.task = Returned("main", IF got THEN "idle" ELSE "cleanup")]
    /\ UNCHANGED nonSerialVars

\* state.device.close(): with self._lock entered
CloseStart ==
    /\ serial.task["main"].pc \in {"recover", "cleanup"}
    /\ serial.current # NoDevice
    /\ serial.lock[serial.current] = "free"
    /\ serial' = [serial EXCEPT
                   !.lock[serial.current] = "main",
                   !.task["main"] =
                       [pc |-> IF @.pc = "recover" THEN "closing" ELSE "last_closing",
                        dev |-> serial.current, n |-> 0]]
    /\ UNCHANGED nonSerialVars

\* the port is closed and the lock left
CloseDone ==
    /\ serial.task["main"].pc \in {"closing", "last_closing"}
    /\ LET d == serial.task["main"].dev
       IN  serial' = [serial EXCEPT
                       !.open[d] = FALSE,
                       !.lock[d] = "free",
                       !.task = Returned("main", IF serial.task["main"].pc = "closing"
                                                 THEN "connect" ELSE "done")]
    /\ UNCHANGED nonSerialVars

\* state.device = serial_connection.connect(config): a new object, or None;
\* while it is None the main loop tries again
Connect(ok) ==
    /\ \/ serial.task["main"].pc = "connect"
       \/ serial.task["main"].pc = "idle" /\ serial.current = NoDevice
    /\ IF ok
       THEN /\ serial.made < MaxDevices
            /\ serial' = [serial EXCEPT !.current = serial.made + 1,
                                    !.made = serial.made + 1,
                                    !.open[serial.made + 1] = TRUE,
                                    !.task = Returned("main", "idle")]
       ELSE serial' = [serial EXCEPT !.current = NoDevice,
                                 !.task = Returned("main", "idle")]
    /\ UNCHANGED nonSerialVars

(***************************************************************************)
(* Publishing (mqtt_publish.py).  published holds the publish calls made   *)
(* on broker clients by the latest publishing operation, where a           *)
(* specification keeps them.                                               *)
(***************************************************************************)
MaxPublishFailures == 3
QosValues == {0, 1, 2}
EventKinds == {"packet", "debug", "status"}

MaxReconnectsLogged == 2

\* state.stats at the start: no publish has failed; reconnects has, per
\* broker, the number of the times logged
NoStats == [publish_failures |-> 0, reconnects |-> [b \in Brokers |-> NotCounted],
            bytes_processed |-> 0, packets_rx |-> 0, packets_tx |-> 0]
CountedStats == [NoStats EXCEPT !.reconnects = [b \in Brokers |-> 0]]

PublishedOff == [on |-> FALSE, op |-> "none", calls |-> {}, result |-> FALSE]
NoPublished == [on |-> TRUE, op |-> "none", calls |-> {}, result |-> FALSE]

\* one call of broker_client.publish / subscribe on the client of record i
PublishCall(i, b, kind, qos, retain, accepted) ==
    [record |-> i, broker_idx |-> b, kind |-> kind, qos |-> qos,
     retain |-> retain, accepted |-> accepted]

\* the calls and the result of an operation, where they are kept
Kept(op, calls, result) ==
    IF published.on
    THEN [on |-> TRUE, op |-> op, calls |-> calls, result |-> result]
    ELSE published

\* the qos safe_publish uses on a broker configured with qos
CoercedQos(qos) == IF qos = 1 THEN 0 ELSE qos

\* publish_failures after a call made while not connected, left as it was
FailuresAfterSkip_uncounted(n) == n

\* publish_failures after a call made while not connected
FailuresAfterSkip(n) == n + 1

\* mqtt_publish.safe_publish called without a client and with retain false,
\* as the parser, the stats task and publish_status call it; accepted[i] is
\* what the publish on the client of record i returns (FALSE also stands for
\* an exception)
FailuresAfterPublish(n, accepted) ==
    IF ~mqtt_connected THEN FailuresAfterSkip(n)
    ELSE n + Cardinality({i \in 1..Len(mqtt_clients) : ~accepted[i]})

\* the publish calls safe_publish makes on the broker clients
CallsOfPublish(kind, accepted) ==
    IF ~mqtt_connected THEN {}
    ELSE {PublishCall(i, mqtt_clients[i].broker_idx, kind,
                      CoercedQos(broker_qos[mqtt_clients[i].broker_idx]),
                      FALSE, accepted[i]) : i \in 1..Len(mqtt_clients)}

\* safe_publish on state.stats being st
SafePublished(st, kind, accepted) ==
    /\ published.on
    /\ FailuresAfterPublish(st.publish_failures, accepted) <= MaxPublishFailures
    /\ stats' = [st EXCEPT !.publish_failures = FailuresAfterPublish(@, accepted)]
    /\ published' = Kept("safe_publish", CallsOfPublish(kind, accepted),
                         mqtt_connected /\ \E i \in 1..Len(mqtt_clients) : accepted[i])

\* a call of safe_publish by the stats task or publish_status
SafePublish(kind, accepted) ==
    /\ SafePublished(stats, kind, accepted)
    /\ UNCHANGED <<setupVars, serial, broker_qos, broker_retain, parser, tokenVars,
                   pingVars, cmdVars, mgrVars>>

(***************************************************************************)
(* Line parser (message_parser.py).  A line is what the parser tests of    *)
(* it: the text after the marker `U RAW:` if it has the marker, whether it *)
(* starts with DEBUG, and whether it matches the packet grammar, as RX or  *)
(* TX.  A line that starts with DEBUG does not match the grammar, which    *)
(* starts with the time.                                                   *)
(***************************************************************************)
MaxLines == 3            \* lines parsed in a run

NoRaw == "no marker"
RawValues == {"AABB0011CCDD", "ABC", ""}
None_raw == "None"

Lines ==
    {l \in [raw : RawValues \cup {NoRaw}, debug_prefix : BOOLEAN,
            packet : {"none", "rx", "tx"}] :
        ~(l.debug_prefix /\ l.packet # "none")}

NoLine == [raw |-> NoRaw, debug_prefix |-> FALSE, packet |-> "none"]

\* no message is handed to safe_publish
NoMessage == [type |-> "none", raw |-> "absent"]

\* what one call of parse_and_publish did: the line, the message it handed
\* to safe_publish, whether a broker client's publish was called, and the
\* bytes it added to bytes_processed
NoParse == [line |-> NoLine, message |-> NoMessage, sent |-> FALSE, bytes |-> 0]

\* the parser where a specification does not run it
NoParser == [on |-> FALSE, debug |-> FALSE, topics |-> {}, last_raw |-> None_raw,
             lines |-> 0, before |-> NoParse, latest |-> NoParse]

\* state.last_raw after the line, never stored
LastRawAfter_kept(line) == parser.last_raw

\* state.last_raw after the line
LastRawAfter(line) == IF line.raw # NoRaw THEN line.raw ELSE parser.last_raw

\* the bytes the line adds to bytes_processed
BytesOf(line) == IF line.raw # NoRaw THEN Len(line.raw) \div 2 ELSE 0

\* the event the line is published as: the test for DEBUG comes before the
\* match of the packet grammar, and both come after the marker was handled
EventOf(line) ==
    IF parser.debug /\ line.debug_prefix THEN "debug"
    ELSE IF line.packet # "none" THEN "packet"
    ELSE "none"

\* is the topic of the event configured (get_topic gives a non-empty topic)
TopicOf(kind) ==
    \/ kind = "debug" /\ "debug" \in parser.topics
    \/ kind = "packet" /\ "packets" \in parser.topics

\* the message built for the line
MessageOf(line) ==
    IF EventOf(line) = "debug" THEN [type |-> "DEBUG", raw |-> "absent"]
    ELSE IF EventOf(line) = "packet" THEN [type |-> "PACKET", raw |-> LastRawAfter(line)]
    ELSE NoMessage

\* state.stats after the counting of the line
CountedLine(line) ==
    LET st == [stats EXCEPT !.bytes_processed = @ + BytesOf(line)]
    IN  IF EventOf(line) # "packet" THEN st
        ELSE IF line.packet = "rx" THEN [st EXCEPT !.packets_rx = @ + 1]
        ELSE [st EXCEPT !.packets_tx = @ + 1]

\* parse_and_publish(state, line) for a non-empty line
ParseAndPublish(line, accepted) ==
    /\ parser.on
    /\ parser.lines < MaxLines
    /\ LET kind == EventOf(line)
           handed == TopicOf(kind)
       IN  /\ IF handed
              THEN SafePublished(CountedLine(line), kind, accepted)
              ELSE /\ stats' = CountedLine(line)
                   /\ published' = Kept("parse_and_publish", {}, FALSE)
           /\ parser' = [parser EXCEPT
                  !.last_raw = LastRawAfter(line),
                  !.lines = @ + 1,
                  !.before = parser.latest,
                  !.latest = [line |-> line,
                              message |-> IF handed THEN MessageOf(line) ELSE NoMessage,
                              sent |-> handed /\ mqtt_connected,
                              bytes |-> BytesOf(line)]]
    /\ UNCHANGED <<setupVars, serial, broker_qos, broker_retain, tokenVars,
                   pingVars, cmdVars, mgrVars>>

(***************************************************************************)
(* Client ids (topics.sanitize_client_id).  A string is the sequence of    *)
(* its characters.                                                         *)
(***************************************************************************)
MaxNameLen == 3          \* characters of a name
MaxClientIdLen == 23

\* characters of the class [a-zA-Z0-9]
Alnum == {"a", "Z", "7", "m", "e", "s", "h", "c", "o", "r", "p"}
AllowedChars == Alnum \cup {"_", "-"}
\* the characters names are made of: a letter, a hyphen, a space, another
\* ASCII character and a character of two bytes
NameChars == {"a", "-", " ", "@", "U+00E9"}

Names == UNION {[1..n -> NameChars] : n \in 0..MaxNameLen}

\* no prefix, the default prefix, a prefix with characters to strip, and a
\* prefix of 22 characters
Prefixes ==
    {<<>>,
     <<"m", "e", "s", "h", "c", "o", "r", "e", "_">>,
     <<"c", "@", " ">>,
     [i \in 1..22 |-> "p"]}

\* the bytes of the string in UTF-8
RECURSIVE Bytes(_)
Bytes(str) ==
    IF str = <<>> THEN 0
    ELSE (IF Head(str) = "U+00E9" THEN 2 ELSE 1) + Bytes(Tail(str))

\* name.replace(" ", "_")
Replaced(name) == [i \in 1..Len(name) |-> IF name[i] = " " THEN "_" ELSE name[i]]

\* with nothing stripped
Stripped_nothing(str) == str

\* re.sub(r"[^a-zA-Z0-9_-]", "", str)
Stripped(str) == SelectSeq(str, LAMBDA c : c \in AllowedChars)

\* str[:23]
Truncated(str) == SubSeq(str, 1, Min(MaxClientIdLen, Len(str)))

sanitize_client_id(name, prefix) == Truncated(Stripped(prefix \o Replaced(name)))

\* no client id is made
NoClientId == [pc |-> "off", name |-> <<>>, prefix |-> <<>>, value |-> <<>>,
               again |-> <<>>]

\* everything but the client id
nonClientIdVars == <<config, remote_serial_enabled, remote_serial_allowed_companions,
                     repeater_priv_key, device, serial, pubVars, tokenVars,
                     pingVars, cmdVars, mgrVars>>

\* the client id is made of the name
Sanitize ==
    /\ client_id.pc = "name"
    /\ client_id' = [client_id EXCEPT
                       !.pc = "once",
                       !.value = sanitize_client_id(client_id.name, client_id.prefix)]
    /\ UNCHANGED nonClientIdVars

\* the function is applied to its own result, under the same prefix
SanitizeAgain ==
    /\ client_id.pc = "once"
    /\ client_id' = [client_id EXCEPT
                       !.pc = "twice",
                       !.again = sanitize_client_id(client_id.value, client_id.prefix)]
    /\ UNCHANGED nonClientIdVars

(***************************************************************************)
(* Broker credentials (MqttManager._generate_auth_credentials).  A token   *)
(* is the set of its claims and the serial number of its minting: two      *)
(* mintings never give the same bytes.                                     *)
(***************************************************************************)
token_ttl == 3600
RefreshMargin == 300
MaxMinted == 3
TokenTimeSteps == {600, 2800}

NoValue == ""
AuthMethods == {"token", "password", "none"}

\* auth and tls of one broker's configuration; a key that is not given has
\* the value the code reads for it
AuthConfigs ==
    [method : AuthMethods, audience : {NoValue, "aud"}, owner : {NoValue, "own"},
     email : {NoValue, "E@x"}, tls_enabled : BOOLEAN, tls_verify : BOOLEAN]

NoAuth == [method |-> "none", audience |-> NoValue, owner |-> NoValue,
           email |-> NoValue, tls_enabled |-> FALSE, tls_verify |-> TRUE]
NoEntry == [has |-> FALSE, token |-> <<>>, age |-> 0]
TokenCacheOff == [on |-> FALSE, minted |-> 0, entries |-> [b \in Brokers |-> NoEntry]]
NoTokenCache == [on |-> TRUE, minted |-> 0, entries |-> [b \in Brokers |-> NoEntry]]

\* what a call for broker b returns, and whether it minted the password
Credentials(b, username, password, minted) ==
    [broker_idx |-> b, username |-> username, password |-> password,
     minted |-> minted]

\* (None, None)
None(b) == Credentials(b, "None", <<>>, FALSE)

\* no call made yet
NoCredentials == Credentials(-1, "None", <<>>, FALSE)

StrLowerEmail(e) == IF e = "E@x" THEN "e@x" ELSE e

\* owner and email put into the claims whatever the tls settings are
IdentityClaims_always(cfg) ==
    (IF cfg.owner # NoValue THEN {<<"owner", cfg.owner>>} ELSE {})
    \cup (IF cfg.email # NoValue THEN {<<"email", StrLowerEmail(cfg.email)>>} ELSE {})

\* owner and email, put into the claims only on a verified tls connection
IdentityClaims(cfg) ==
    IF cfg.tls_enabled /\ cfg.tls_verify
    THEN (IF cfg.owner # NoValue THEN {<<"owner", cfg.owner>>} ELSE {})
         \cup (IF cfg.email # NoValue THEN {<<"email", StrLowerEmail(cfg.email)>>} ELSE {})
    ELSE {}

\* the claims handed to create_token for a broker with configuration cfg
TokenClaims(cfg) ==
    (IF cfg.audience # NoValue THEN {<<"aud", cfg.audience>>} ELSE {})
    \cup IdentityClaims(cfg)
    \cup {<<"client", "client_version">>}

\* what create_token returns on its n-th call
MintedToken(b, n) == [claims |-> TokenClaims(broker_auth[b]), serial |-> n]

\* whether the cached entry is fresh enough to be used again, whatever its age
IsFresh_always(entry) == entry.has

\* whether the cached entry is fresh enough to be used again
IsFresh(entry) == entry.has /\ entry.age < token_ttl - RefreshMargin

\* MqttManager._generate_auth_credentials; mint_ok is whether create_token
\* returns a token rather than raising
GenerateAuthCredentials(b, force_refresh, mint_ok) ==
    /\ token_cache.on
    /\ LET cfg == broker_auth[b]
           entry == token_cache.entries[b]
           n == token_cache.minted + 1
       IN  IF cfg.method = "token"
           THEN IF ~repeater_priv_key
                THEN credentials' = None(b) /\ UNCHANGED token_cache
                ELSE IF ~force_refresh /\ IsFresh(entry)
                THEN /\ credentials' = Credentials(b, "v1_AA", entry.token, FALSE)
                     /\ UNCHANGED token_cache
                ELSE /\ n <= MaxMinted
                     /\ IF mint_ok
                        THEN /\ token_cache' =
                                    [token_cache EXCEPT
                                       !.minted = n,
                                       !.entries[b] = [has |-> TRUE,
                                                       token |-> MintedToken(b, n),
                                                       age |-> 0]]
                             /\ credentials' =
                                    Credentials(b, "v1_AA", MintedToken(b, n), TRUE)
                        ELSE /\ UNCHANGED token_cache
                             /\ credentials' = None(b)
           ELSE IF cfg.method = "password"
           THEN /\ credentials' = Credentials(b, "user", <<"pass">>, FALSE)
                /\ UNCHANGED token_cache
           ELSE /\ credentials' = Credentials(b, "", <<>>, FALSE)
                /\ UNCHANGED token_cache
    /\ UNCHANGED <<setupVars, serial, pubVars, broker_auth, pingVars, cmdVars,
                   mgrVars>>

\* the cache d seconds later
AgedTokenCache(cache, d) ==
    [cache EXCEPT
       !.entries = [b \in Brokers |->
                      IF @[b].has
                      THEN [@[b] EXCEPT !.age = Min(@ + d, token_ttl)]
                      ELSE @[b]]]

\* can a token be minted for broker b within the tokens told apart
CanMint(b) ==
    ~token_cache.on \/ broker_auth[b].method # "token" \/ token_cache.minted < MaxMinted

\* the cache after _generate_auth_credentials(b) as _create_and_connect_broker
\* calls it, without forced refresh
CacheAfterCredentials(cache, b, mint_ok) ==
    IF ~cache.on \/ broker_auth[b].method # "token" \/ ~repeater_priv_key THEN cache
    ELSE IF IsFresh(cache.entries[b]) \/ ~mint_ok THEN cache
    ELSE LET n == cache.minted + 1
         IN  [cache EXCEPT !.minted = n,
                           !.entries[b] = [has |-> TRUE, token |-> MintedToken(b, n),
                                           age |-> 0]]

\* what that call returns, where the credentials are kept
CredentialsReturned(cache, b, mint_ok) ==
    IF ~cache.on THEN credentials
    ELSE IF broker_auth[b].method = "token"
    THEN IF ~repeater_priv_key THEN None(b)
         ELSE IF IsFresh(cache.entries[b])
         THEN Credentials(b, "v1_AA", cache.entries[b].token, FALSE)
         ELSE IF mint_ok
         THEN Credentials(b, "v1_AA", MintedToken(b, cache.minted + 1), TRUE)
         ELSE None(b)
    ELSE IF broker_auth[b].method = "password"
    THEN Credentials(b, "user", <<"pass">>, FALSE)
    ELSE Credentials(b, "", <<>>, FALSE)

\* the cache with the entry of broker b left in it
ClearedCache_kept(cache, b) == cache

\* if broker_idx in state.token_cache: del state.token_cache[broker_idx]
ClearedCache(cache, b) == [cache EXCEPT !.entries[b] = NoEntry]

\* d seconds pass for the cached tokens
TokenTimePasses(d) ==
    /\ token_cache.on
    /\ token_cache' = AgedTokenCache(token_cache, d)
    /\ UNCHANGED <<setupVars, serial, pubVars, broker_auth, credentials,
                   pingVars, cmdVars, mgrVars>>

(***************************************************************************)
(* Strings.  Commands and rules are sequences of characters; keys are      *)
(* drawn from a small set on which str.upper() is tabulated.               *)
(***************************************************************************)
CharLower(c) ==
    CASE c = "E" -> "e"
      [] c = "R" -> "r"
      [] c = "G" -> "g"
      [] c = "V" -> "v"
      [] OTHER -> c

StrLower(s) == [i \in 1..Len(s) |-> CharLower(s[i])]

RECURSIVE StrStrip(_)
StrStrip(s) ==
    IF s = <<>> THEN s
    ELSE IF Head(s) = " " THEN StrStrip(Tail(s))
    ELSE IF s[Len(s)] = " " THEN StrStrip(SubSeq(s, 1, Len(s) - 1))
    ELSE s

StartsWith(s, p) == Len(p) <= Len(s) /\ SubSeq(s, 1, Len(p)) = p

KeyUpper(k) ==
    CASE k = "cc" -> "CC"
      [] k = "aa" -> "AA"
      [] k = "dd" -> "DD"
      [] OTHER -> k

repeater_pub_key == "AA"

\* remote_serial.disallowed_commands of the explored configuration
remote_serial_disallowed_commands == << <<"g">>, <<"e", "R">> >>

NoRule == <<>>

\* the command compared as it came, neither trimmed nor lowered
is_command_allowed_verbatim(command) ==
    LET hits == {i \in 1..Len(remote_serial_disallowed_commands) :
                    StartsWith(command, remote_serial_disallowed_commands[i])}
    IN  IF hits = {} THEN <<TRUE, NoRule>>
        ELSE <<FALSE, remote_serial_disallowed_commands[
                          CHOOSE i \in hits : \A j \in hits : i <= j]>>

\* remote_serial.is_command_allowed: <<allowed, matched rule>>
is_command_allowed(command) ==
    LET cmd_lower == StrLower(StrStrip(command))
        hits == {i \in 1..Len(remote_serial_disallowed_commands) :
                    StartsWith(cmd_lower, StrLower(remote_serial_disallowed_commands[i]))}
    IN  IF hits = {} THEN <<TRUE, NoRule>>
        ELSE <<FALSE, remote_serial_disallowed_commands[
                          CHOOSE i \in hits : \A j \in hits : i <= j]>>

(***************************************************************************)
(* Envelopes: what decode_payload yields for an inbound token, and whether *)
(* verify_token accepts it.                                                *)
(***************************************************************************)
Nonces == {"n1"}
Commands == {<<>>, <<"v">>, <<" ", "E", "r">>}
ExpValues == {0, 2}

CommandsTopic == "meshcore/TST/AA/serial/commands"
Topics == {CommandsTopic, "meshcore/TST/AA/status"}

\* '/serial/commands' in topic
IsSerialCommandsTopic(topic) == topic = CommandsTopic

\* a command an allowed companion signed for this node, valid until second 2
ValidEnvelope ==
    [topic |-> CommandsTopic, decodable |-> TRUE, publicKey |-> "cc",
     command |-> <<"v">>, target |-> "aa", nonce |-> "n1",
     has_exp |-> TRUE, exp |-> 2, sig_ok |-> TRUE]

\* the values explored for the fields of an envelope
FieldValues ==
    [topic     |-> Topics,
     decodable |-> BOOLEAN,
     publicKey |-> {"", "cc", "DD"},
     command   |-> Commands,
     target    |-> {"", "aa", "FF"},
     nonce     |-> Nonces \cup {""},
     sig_ok    |-> BOOLEAN]

\* the exp claim: present with a value, or absent
ExpClaims == {<<TRUE, x>> : x \in ExpValues} \cup {<<FALSE, 0>>}

\* the envelopes that depart from e in one field, the exp claim counting as
\* one field
Vary(e) ==
    UNION {{[e EXCEPT ![f] = v] : v \in FieldValues[f]} : f \in DOMAIN FieldValues}
    \cup {[e EXCEPT !.has_exp = c[1], !.exp = c[2]] : c \in ExpClaims}

\* the envelopes that depart from the valid one in at most n fields
RECURSIVE EnvelopesWithin(_)
EnvelopesWithin(n) ==
    IF n = 0 THEN {ValidEnvelope}
    ELSE LET nearer == EnvelopesWithin(n - 1)
         IN  nearer \cup UNION {Vary(e) : e \in nearer}

\* the messages explored
Envelopes == EnvelopesWithin(MaxDeviations)

\* cleanup_old_nonces with the cutoff itself purged too (ts <= cutoff_time)
cleanup_old_nonces_inclusive(nonces, current_time) ==
    LET cutoff_time == current_time - NonceTtl
        keep == {n \in DOMAIN nonces : ~(nonces[n] <= cutoff_time)}
    IN  [n \in keep |-> nonces[n]]

\* remote_serial.cleanup_old_nonces
cleanup_old_nonces(nonces, current_time) ==
    LET cutoff_time == current_time - NonceTtl
        keep == {n \in DOMAIN nonces : ~(nonces[n] < cutoff_time)}
    IN  [n \in keep |-> nonces[n]]

\* the truth value Python gives `exp and current_time > exp`
IsExpired(env, current_time) ==
    env.has_exp /\ env.exp # 0 /\ current_time > env.exp

\* the response published to the first connected record only
ResponseBatch_first(command, request_id, success, text, rule) ==
    LET conn == {j \in 1..Len(mqtt_clients) : mqtt_clients[j].connected}
    IN  IF ~repeater_priv_key \/ conn = {} THEN {}
        ELSE {[broker_idx |-> mqtt_clients[i].broker_idx,
               record |-> i,
               qos |-> 1,
               topic |-> "meshcore/TST/AA/serial/responses",
               command |-> command,
               request_id |-> request_id,
               success |-> success,
               response |-> text,
               rule |-> rule] : i \in {CHOOSE j \in conn : \A k \in conn : j <= k}}

\* the publish calls of one publish_serial_response
ResponseBatch(command, request_id, success, text, rule) ==
    IF ~repeater_priv_key THEN {}
    ELSE {[broker_idx |-> mqtt_clients[i].broker_idx,
           record |-> i,
           qos |-> 1,
           topic |-> "meshcore/TST/AA/serial/responses",
           command |-> command,
           request_id |-> request_id,
           success |-> success,
           response |-> text,
           rule |-> rule] : i \in {j \in 1..Len(mqtt_clients) : mqtt_clients[j].connected}}

\* remote_serial.publish_serial_response
publish_serial_response(command, request_id, success, text, rule) ==
    LET batch == ResponseBatch(command, request_id, success, text, rule)
    IN  /\ resp_count + Cardinality(batch) <= MaxResponses
        /\ resp_count' = resp_count + Cardinality(batch)
        /\ last_response' = IF batch = {} THEN last_response ELSE batch

NoResponse == UNCHANGED <<last_response, resp_count>>

\* the claims of a decoded payload, and whether verify_token accepts the token
Payload(env) ==
    [publicKey |-> env.publicKey, command |-> env.command, target |-> env.target,
     nonce |-> env.nonce, has_exp |-> env.has_exp, exp |-> env.exp,
     sig_ok |-> env.sig_ok]

NoPayload ==
    [publicKey |-> "", command |-> <<>>, target |-> "", nonce |-> "",
     has_exp |-> FALSE, exp |-> 0, sig_ok |-> FALSE]

\* a message callback: its position and the locals it goes on to use
IdleHandler == [pc |-> "idle", payload |-> NoPayload, current_time |-> 0]

(***************************************************************************)
(* Broker records and clients.                                             *)
(*                                                                         *)
(* The timestamps of a broker record are kept as distances from the        *)
(* present.  connecting_since and connect_time are NoTime for the literal  *)
(* 0 and Ago(s) for a reading of time.time() taken s seconds ago;          *)
(* reconnect_at is the time still to pass until it is reached, in Ticks    *)
(* (0 once reached, which includes the literal 0).                         *)
(***************************************************************************)
NoTime == [zero |-> TRUE, ago |-> 0]
Ago(s) == [zero |-> FALSE, ago |-> s]

\* a broker client as the client library sees it
NoClient == [loop |-> "none", link |-> "connecting"]

NoRecord ==
    [client |-> NoClient, broker_idx |-> 0, connected |-> FALSE,
     connecting_since |-> NoTime, connect_time |-> NoTime,
     reconnect_at |-> 0, failed_attempts |-> 0]

(***************************************************************************)
(* Command handler (remote_serial.py), one message callback per broker.    *)
(***************************************************************************)

\* a return that logs msg and publishes a failure response
Drop_answered(msg) ==
    /\ publish_serial_response(<<>>, "", FALSE, msg, NoRule)
    /\ last_log' = msg
    /\ UNCHANGED <<remote_serial_nonces, handler>>

\* a return that logs msg and publishes nothing
Drop(msg) ==
    /\ NoResponse
    /\ last_log' = msg
    /\ UNCHANGED <<remote_serial_nonces, handler>>

\* a return that logs msg and publishes nothing
Reject_unanswered(command, nonce, msg, text) ==
    /\ NoResponse
    /\ last_log' = msg
    /\ UNCHANGED <<remote_serial_nonces, handler>>

\* a return that logs msg and publishes a failure response
Reject(command, nonce, msg, text) ==
    /\ publish_serial_response(command, nonce, FALSE, text, NoRule)
    /\ last_log' = msg
    /\ UNCHANGED <<remote_serial_nonces, handler>>

\* on_mqtt_message and handle_serial_command up to the nonce check
HandleStart(b, env) ==
    /\ handler[b].pc = "idle"
    /\ UNCHANGED <<cfgVars, mgrVars, clock, exec_count, exec_at, executed>>
    /\ IF ~IsSerialCommandsTopic(env.topic)
       THEN NoResponse /\ UNCHANGED <<remote_serial_nonces, handler, last_log>>
       ELSE IF ~remote_serial_enabled
       THEN Drop("feature is disabled")
       ELSE IF remote_serial_allowed_companions = {}
       THEN Drop("no companions are allowed")
       ELSE IF ~env.decodable
       THEN Drop("Failed to decode command JWT")
       ELSE
       LET companion_pubkey == KeyUpper(env.publicKey)
           command == env.command
           target == KeyUpper(env.target)
           nonce == env.nonce
           current_time == clock
           cleaned == cleanup_old_nonces(remote_serial_nonces, current_time)
       IN  IF companion_pubkey = "" \/ command = <<>> \/ target = "" \/ nonce = ""
           THEN Drop("Missing required fields")
           ELSE IF target # repeater_pub_key
           THEN Drop("Command target doesn't match our key")
           ELSE IF companion_pubkey \notin remote_serial_allowed_companions
           THEN Reject(command, nonce, "Command from unauthorized companion",
                       "Unauthorized companion")
           ELSE IF IsExpired(env, current_time)
           THEN Reject(command, nonce, "Command JWT expired", "Command expired")
           ELSE /\ remote_serial_nonces' = cleaned
                /\ NoResponse
                /\ IF nonce \in DOMAIN cleaned
                   THEN /\ last_log' = "Duplicate nonce detected"
                        /\ UNCHANGED handler
                   ELSE /\ UNCHANGED last_log
                        /\ handler' = [handler EXCEPT ![b] =
                            [pc |-> "verify", payload |-> Payload(env),
                             current_time |-> current_time]]

\* state.remote_serial_nonces[nonce] = current_time
RecordNonce(nonces, nonce, current_time) ==
    [n \in DOMAIN nonces \cup {nonce} |->
        IF n = nonce THEN current_time ELSE nonces[n]]

\* the nonce recorded whatever verify_token says
NoncesAfterVerify_always(nonces, env, current_time) ==
    RecordNonce(nonces, env.nonce, current_time)

\* the nonce map after verify_token: the nonce is recorded only if the
\* signature verified
NoncesAfterVerify(nonces, env, current_time) ==
    IF env.sig_ok THEN RecordNonce(nonces, env.nonce, current_time) ELSE nonces

\* handle_serial_command from the signature check to the device check
HandleVerify(b) ==
    /\ handler[b].pc = "verify"
    /\ UNCHANGED <<cfgVars, mgrVars, clock, exec_count, exec_at, executed>>
    /\ LET env == handler[b].payload
           allowed == is_command_allowed(env.command)
       IN  IF ~env.sig_ok
           THEN /\ publish_serial_response(env.command, env.nonce, FALSE,
                                           "Invalid signature", NoRule)
                /\ last_log' = "JWT signature verification failed"
                /\ handler' = [handler EXCEPT ![b] = IdleHandler]
                /\ remote_serial_nonces' =
                       NoncesAfterVerify(remote_serial_nonces, env,
                                         handler[b].current_time)
           ELSE /\ remote_serial_nonces' =
                       NoncesAfterVerify(remote_serial_nonces, env,
                                         handler[b].current_time)
                /\ IF ~allowed[1]
                   THEN /\ publish_serial_response(env.command, env.nonce, FALSE,
                                                   "Command blocked", allowed[2])
                        /\ last_log' = "Command blocked by rule"
                        /\ handler' = [handler EXCEPT ![b] = IdleHandler]
                   ELSE IF device = "none"
                   THEN /\ publish_serial_response(env.command, env.nonce, FALSE,
                                                   "Serial port not connected", NoRule)
                        /\ last_log' = "JWT signature verified"
                        /\ handler' = [handler EXCEPT ![b] = IdleHandler]
                   ELSE /\ NoResponse
                        /\ last_log' = "Executing command"
                        /\ handler' = [handler EXCEPT ![b].pc = "execute"]

\* state.device.execute_command and the response that reports its result
HandleExecute(b, success) ==
    /\ handler[b].pc = "execute"
    /\ exec_count < MaxExec
    /\ UNCHANGED <<cfgVars, mgrVars, clock, remote_serial_nonces, last_log>>
    /\ LET env == handler[b].payload
       IN  /\ exec_count' = exec_count + 1
           /\ exec_at' = [exec_at EXCEPT ![env.nonce] = handler[b].current_time]
           /\ executed' = IF executed.on
                          THEN [executed EXCEPT !.envs = @ \cup {env}]
                          ELSE executed
           /\ publish_serial_response(env.command, env.nonce, success,
                                      IF success THEN "device output" ELSE "device error",
                                      NoRule)
           /\ handler' = [handler EXCEPT ![b] = IdleHandler]

\* the wall clock moves on
AdvanceClock ==
    /\ clock < MaxClock
    /\ clock' = clock + 1
    /\ UNCHANGED <<cfgVars, mgrVars, remote_serial_nonces, handler, exec_count,
                   exec_at, executed, last_response, resp_count, last_log>>

\* the broker list the command handler runs against: one record per broker
CmdBrokerList(conn) ==
    [i \in 1..NumBrokers |->
        [client |-> [loop |-> "running",
                     link |-> IF conn[i - 1] THEN "up" ELSE "connecting"],
         broker_idx |-> i - 1, connected |-> conn[i - 1],
         connecting_since |-> IF conn[i - 1] THEN NoTime ELSE Ago(0),
         connect_time |-> IF conn[i - 1] THEN Ago(0) ELSE NoTime,
         reconnect_at |-> 0, failed_attempts |-> 0]]

\* the executed envelopes where they are not followed
NoExecuted == [on |-> FALSE, envs |-> {}]

InitCmdCore ==
    /\ serial = InitLink
    /\ remote_serial_nonces = <<>>
    /\ clock = 1
    /\ handler = [b \in Brokers |-> IdleHandler]
    /\ exec_count = 0
    /\ exec_at = [n \in Nonces |-> 0]
    /\ executed = NoExecuted
    /\ last_response = {}
    /\ resp_count = 0
    /\ last_log = ""

\* with the broker credentials left out
InitTokenOff ==
    /\ broker_auth = [b \in Brokers |-> NoAuth]
    /\ token_cache = TokenCacheOff
    /\ credentials = NoCredentials

\* with no publish calls kept
InitCmdState ==
    /\ InitCmdCore
    /\ broker_qos = [b \in Brokers |-> 0]
    /\ broker_retain = [b \in Brokers |-> TRUE]
    /\ parser = NoParser
    /\ stats = NoStats
    /\ published = PublishedOff
    /\ InitTokenOff
    /\ ws_ping_threads = [b \in Brokers |-> "tcp"]
    /\ ping_tasks = NoPingTasks

(***************************************************************************)
(* Broker manager (mqtt_manager.py) and the main task (runner.run).        *)
(*                                                                         *)
(* Callbacks are delivered by the network task of a client whose loop was  *)
(* started and not stopped.  A client's link is "up" between on_connect    *)
(* with rc = 0 and the next on_disconnect and "connecting" otherwise: the  *)
(* client library connects again by itself after a disconnect.             *)
(***************************************************************************)
MaxRecords == 2          \* records the broker list is explored to
MaxFailing == 1          \* records explored with failed_attempts > 0 at the same time
MaxFailedAttempts == 13  \* highest failed_attempts the on-disconnect callback is explored to
MaxStartupFailed == 1    \* the same, before the main loop has started
MaxCounted == 3          \* failed attempts to recreate a client that are counted

TicksPerSecond == 2 ^ 12         \* reconnect_delay and reconnect_at count 1/4096 s
max_reconnect_attempts == 12
max_initial_retries == 10
max_wait == 10                   \* seconds connect_all_brokers waits per broker
ConnectingWindow == 10           \* seconds a connect attempt is left alone
StableAfter == 120               \* seconds after which a connection counts as stable
MaxSleep == 30                   \* longest sleep between initial-connect rounds

initial_reconnect_delay == TicksPerSecond
max_reconnect_delay == 120 * TicksPerSecond
Jitter == {-(TicksPerSecond \div 2), TicksPerSecond \div 2}

TimeSteps == {120}               \* seconds by which the explored time moves on

\* index of the first record of broker b in the list, 0 if there is none
\* (for info in state.mqtt_clients: if info['broker_idx'] == broker_idx: ... break)
FirstRecordOf(list, b) ==
    LET hits == {i \in 1..Len(list) : list[i].broker_idx = b}
    IN  IF hits = {} THEN 0 ELSE CHOOSE i \in hits : \A j \in hits : i <= j

\* all(not info.get('connected') for info in state.mqtt_clients)
AllDisconnected(list) == \A i \in 1..Len(list) : ~list[i].connected

\* a client after connect() and loop_start()
StartedClient == [loop |-> "running", link |-> "connecting"]

\* the record _create_and_connect_broker returns for a client it started
FreshRecord(b) ==
    [client |-> StartedClient, broker_idx |-> b, connected |-> FALSE,
     connecting_since |-> Ago(0), connect_time |-> NoTime,
     reconnect_at |-> 0, failed_attempts |-> 0]

\* old_client.loop_stop(); old_client.disconnect()
StoppedRecord(r) == [r EXCEPT !.client = [loop |-> "stopped", link |-> "connecting"]]

\* the lists the failure counters are explored over
InStartup == main.pc \in {"connect_all", "cab_append", "cab_wait", "retry_sleep"}

Explored(list) ==
    /\ \A i \in 1..Len(list) : list[i].failed_attempts <=
           IF InStartup THEN MaxStartupFailed ELSE MaxFailedAttempts
    /\ Cardinality({i \in 1..Len(list) : list[i].failed_attempts > 0}) <= MaxFailing

\* the clients that exist: those of the records (1..Len) and the one the main
\* task has started and not yet put into the list (0)
Holders == 0..Len(mqtt_clients)
RecordAt(k) == IF k = 0 THEN main.new_client_info ELSE mqtt_clients[k]

\* ---- the observer of the connections' outcomes ----
\* attempts counts a broker's failed attempts to recreate its client since its
\* last successful connect (on_connect with rc = 0), up to MaxCounted.
\* For each broker: short_runs counts its latest connections that were
\* established and dropped again within StableAfter seconds, failed_runs its
\* latest connection attempts that failed after the client was created, each
\* of them followed by a successful recreate of the client; pending tells how
\* the connection of the present client has ended, if it has.  The observer
\* follows the client of a broker's first record, and only where a
\* specification switches it on.

\* the count after on_connect with return code rc for broker b
CountedAfterConnect(h, b, rc) ==
    IF h[b].attempts = NotCounted \/ rc # 0 THEN h
    ELSE [h EXCEPT ![b].attempts = 0]

\* the count after a failed attempt to recreate the client of broker b
CountedAfterFailure(h, b) ==
    IF h[b].attempts = NotCounted THEN h
    ELSE [h EXCEPT ![b].attempts = Min(@ + 1, MaxCounted)]

HistoryOff ==
    [b \in Brokers |-> [pending |-> "off", short_runs |-> 0, failed_runs |-> 0,
                        attempts |-> NotCounted, shutdown |-> "off"]]
NoHistory ==
    [b \in Brokers |-> [pending |-> "none", short_runs |-> 0, failed_runs |-> 0,
                        attempts |-> NotCounted, shutdown |-> "off"]]
\* only the failed attempts to recreate a broker's client are counted
CountedHistory ==
    [b \in Brokers |-> [pending |-> "off", short_runs |-> 0, failed_runs |-> 0,
                        attempts |-> 0, shutdown |-> "off"]]

\* only the disconnects of a broker during the shutdown are noted
ShutdownHistory ==
    [b \in Brokers |-> [pending |-> "off", short_runs |-> 0, failed_runs |-> 0,
                        attempts |-> NotCounted, shutdown |-> "no"]]

\* the history with a disconnect of broker b during the shutdown noted
NotedAfterDisconnect(h, b) ==
    IF should_exit /\ h[b].shutdown = "no" /\ FirstRecordOf(mqtt_clients, b) # 0
    THEN [h EXCEPT ![b].shutdown = "yes"]
    ELSE h

Observed(k, b) ==
    history[b].pending # "off" /\ k # 0 /\ k = FirstRecordOf(mqtt_clients, b)

\* on_connect with return code rc seen on the client at k
HistoryAfterConnect(k, b, rc) ==
    IF ~Observed(k, b) THEN history
    ELSE IF rc = 0
    THEN [history EXCEPT ![b] =
             [@ EXCEPT !.pending = "none",
                       !.short_runs = IF history[b].pending = "short" THEN 0 ELSE @,
                       !.failed_runs = 0]]
    ELSE [history EXCEPT ![b].pending = IF @ = "none" THEN "failed" ELSE @]

\* on_disconnect seen on the client at k
HistoryAfterDisconnect(k, b) ==
    IF ~Observed(k, b) THEN history
    ELSE LET r == mqtt_clients[k]
         IN  IF r.client.link # "up"
             THEN [history EXCEPT ![b].pending = IF @ = "none" THEN "failed" ELSE @]
             ELSE IF r.connect_time.ago < StableAfter
             THEN [history EXCEPT ![b].pending = "short"]
             ELSE [history EXCEPT ![b] =
                      [@ EXCEPT !.pending = "none", !.short_runs = 0,
                                !.failed_runs = 0]]

\* the reconnect loop has stopped the client at k and tried to recreate it
HistoryAfterRecreate(k, b, ok) ==
    IF ~Observed(k, b) THEN history
    ELSE IF ~ok
    THEN [history EXCEPT ![b] =
             [@ EXCEPT !.pending = "none", !.short_runs = 0, !.failed_runs = 0]]
    ELSE LET h == history[b]
         IN  IF h.pending = "short"
             THEN [history EXCEPT ![b] =
                      [@ EXCEPT !.pending = "none",
                                !.short_runs = Min(@ + 1, max_reconnect_attempts),
                                !.failed_runs = 0]]
             ELSE IF h.pending = "failed" \/ mqtt_clients[k].connect_time.zero
             THEN [history EXCEPT ![b] =
                      [@ EXCEPT !.pending = "none", !.short_runs = 0,
                                !.failed_runs = Min(@ + 1, max_reconnect_attempts)]]
             ELSE [history EXCEPT ![b].pending = "none"]

\* ---- callbacks, run by the network task of the client held at k ----

\* on_mqtt_connect with rc = 0: the online status is published on the client
\* of the broker's record with the qos of the broker's configuration, and
\* the command topic is subscribed with qos 1 if remote serial is enabled
PublishedAfterConnect(b, rc) ==
    LET i == FirstRecordOf(mqtt_clients, b)
    IN  IF rc # 0 \/ i = 0 THEN Kept("on_connect", {}, FALSE)
        ELSE Kept("on_connect",
                  {PublishCall(i, b, "status", broker_qos[b], broker_retain[b], TRUE)}
                  \cup (IF remote_serial_enabled
                        THEN {PublishCall(i, b, "subscribe", 1, FALSE, TRUE)} ELSE {}),
                  FALSE)

\* on_mqtt_connect leaving connecting_since as it was
ConnectedRecord_still_connecting(r) ==
    [r EXCEPT !.connected = TRUE, !.connect_time = Ago(0)]

\* the record on_mqtt_connect leaves behind for rc = 0
ConnectedRecord(r) ==
    [r EXCEPT !.connected = TRUE, !.connecting_since = NoTime,
              !.connect_time = Ago(0)]

\* the list after on_mqtt_connect
ListAfterConnect(list, b, rc) ==
    LET k == FirstRecordOf(list, b)
    IN  IF rc = 0 /\ k # 0 THEN [list EXCEPT ![k] = ConnectedRecord(@)] ELSE list

\* MqttManager.on_mqtt_connect
OnConnect(k, rc) ==
    /\ RecordAt(k).client.loop = "running"
    /\ RecordAt(k).client.link = "connecting"
    /\ LET b == RecordAt(k).broker_idx
           link == IF rc = 0 THEN "up" ELSE "connecting"
           list == ListAfterConnect(mqtt_clients, b, rc)
       IN  /\ connection_events' =
                  IF connection_events[b] = "none" THEN connection_events
                  ELSE [connection_events EXCEPT ![b] = "set"]
           /\ reconnect_delay' = IF rc = 0 THEN initial_reconnect_delay
                                 ELSE reconnect_delay
           /\ mqtt_connected' = IF rc = 0 /\ FirstRecordOf(mqtt_clients, b) # 0
                                THEN TRUE ELSE mqtt_connected
           /\ IF k = 0
              THEN /\ mqtt_clients' = list
                   /\ main' = [main EXCEPT !.new_client_info.client.link = link]
              ELSE /\ mqtt_clients' = [list EXCEPT ![k].client.link = link]
                   /\ main' = main
           /\ history' = CountedAfterConnect(HistoryAfterConnect(k, b, rc), b, rc)
           /\ published' = PublishedAfterConnect(b, rc)
    /\ UNCHANGED <<setupVars, serial, broker_qos, broker_retain, stats, parser,
                   tokenVars, pingVars, cmdVars, should_exit>>

\* failed_attempts after a disconnect, counted whatever the age
FailedAfterDisconnect_counted(r) == r.failed_attempts + 1

\* failed_attempts after a disconnect, by the age of the connection
FailedAfterDisconnect(r) ==
    IF ~r.connect_time.zero /\ r.connect_time.ago < StableAfter
    THEN r.failed_attempts + 1
    ELSE IF ~r.connect_time.zero /\ r.failed_attempts > 0
    THEN 0
    ELSE r.failed_attempts

\* the record on_mqtt_disconnect leaves behind while the bridge keeps running
DisconnectedRecord(r) ==
    [r EXCEPT !.connected = FALSE, !.connecting_since = NoTime,
              !.reconnect_at = reconnect_delay,
              !.failed_attempts = FailedAfterDisconnect(r)]

\* the list after on_mqtt_disconnect
ListAfterDisconnect(list, b) ==
    LET k == FirstRecordOf(list, b)
    IN  IF k = 0 THEN list
        ELSE IF should_exit THEN [list EXCEPT ![k].connected = FALSE]
        ELSE [list EXCEPT ![k] = DisconnectedRecord(@)]

\* MqttManager.stop_websocket_ping_thread
PingThreadsAfterStop(t, b) ==
    IF t[b] \in {"active", "inactive"} THEN [t EXCEPT ![b] = "none"] ELSE t

\* the entry _create_and_connect_broker makes for a broker whose transport is
\* websockets
PingThreadsAfterCreate(t, b) ==
    IF t[b] = "tcp" THEN t ELSE [t EXCEPT ![b] = "active"]

\* ---- the keepalive tasks ----
\* A task is told to stop when the entry of its broker is switched off or
\* deleted: by "stop" (stop_websocket_ping_thread, after which its client is
\* stopped and has no socket any more) or by "disconnect" (the callback,
\* after which the client connects again by itself).
MaxPingTasks == 3        \* keepalive tasks started in one run

\* a task entering `while broker_idx in state.ws_ping_threads and ...`
StartedTask(b) == [broker_idx |-> b, pc |-> "checking", told |-> "no",
                   late_ping |-> FALSE]

\* the tasks of broker b that have not returned are told to stop
ToldTasks(p, b, how) ==
    [p EXCEPT !.tasks =
        [t \in 1..Len(p.tasks) |->
            IF p.tasks[t].broker_idx = b /\ p.tasks[t].pc # "exited"
               /\ (how = "stop" \/ p.tasks[t].told = "no")
            THEN [p.tasks[t] EXCEPT !.told = how]
            ELSE p.tasks[t]]]

\* the tasks after stop_websocket_ping_thread(b), the entries being t
PingTasksAfterStop(p, t, b) ==
    IF p.on /\ t[b] \in {"active", "inactive"} THEN ToldTasks(p, b, "stop") ELSE p

\* the tasks after ping_thread.start() in _create_and_connect_broker
PingTasksAfterCreate(p, t, b) ==
    IF p.on /\ t[b] # "tcp"
    THEN [p EXCEPT !.tasks = Append(p.tasks, StartedTask(b))]
    ELSE p

CanStartTask(b) ==
    ~ping_tasks.on \/ ws_ping_threads[b] = "tcp" \/ Len(ping_tasks.tasks) < MaxPingTasks

\* the tasks after on_mqtt_disconnect has switched the entry off
PingTasksAfterDisconnect(b) ==
    IF ping_tasks.on /\ ~should_exit /\ ws_ping_threads[b] = "active"
    THEN ToldTasks(ping_tasks, b, "disconnect")
    ELSE ping_tasks

\* does the task's client have a socket: not after loop_stop and disconnect
MayHaveSocket(task) == task.told # "stop"

\* sleep(ping_interval) is over: the PING is sent if the client has a socket
PingWake(t, sock) ==
    /\ ping_tasks.on
    /\ t <= Len(ping_tasks.tasks)
    /\ ping_tasks.tasks[t].pc = "sleeping"
    /\ sock => MayHaveSocket(ping_tasks.tasks[t])
    /\ ping_tasks' = [ping_tasks EXCEPT
                         !.tasks[t].pc = "checking",
                         !.tasks[t].late_ping = @ \/ (sock /\ ping_tasks.tasks[t].told # "no")]
    /\ UNCHANGED <<setupVars, serial, pubVars, tokenVars, ws_ping_threads, cmdVars,
                   mgrVars>>

\* while broker_idx in state.ws_ping_threads and
\*       state.ws_ping_threads[broker_idx].get('active', False)
PingGoesOn(task) == ws_ping_threads[task.broker_idx] = "active"

\* the loop condition of websocket_ping_loop: sleep again, or return
PingCheck(t) ==
    /\ ping_tasks.on
    /\ t <= Len(ping_tasks.tasks)
    /\ ping_tasks.tasks[t].pc = "checking"
    /\ ping_tasks' = [ping_tasks EXCEPT
                         !.tasks[t].pc = IF PingGoesOn(ping_tasks.tasks[t])
                                         THEN "sleeping" ELSE "exited"]
    /\ UNCHANGED <<setupVars, serial, pubVars, tokenVars, ws_ping_threads, cmdVars,
                   mgrVars>>

\* the entry on_mqtt_disconnect switches off while the bridge keeps running
PingThreadsAfterDisconnect(b) ==
    IF ~should_exit /\ ws_ping_threads[b] = "active"
    THEN [ws_ping_threads EXCEPT ![b] = "inactive"]
    ELSE ws_ping_threads

\* does on_mqtt_disconnect log the time in stats['reconnects'][b]
LogsReconnect(b) ==
    LET k == FirstRecordOf(mqtt_clients, b)
    IN  /\ ~should_exit /\ k # 0
        /\ mqtt_clients[k].connected /\ ~mqtt_clients[k].connect_time.zero
        /\ stats.reconnects[b] # NotCounted

StatsAfterDisconnect(b) ==
    IF LogsReconnect(b) THEN [stats EXCEPT !.reconnects[b] = @ + 1] ELSE stats

\* MqttManager.on_mqtt_disconnect
OnDisconnect(k) ==
    /\ RecordAt(k).client.loop = "running"
    /\ LET b == RecordAt(k).broker_idx
           list == ListAfterDisconnect(mqtt_clients, b)
       IN  /\ Explored(list)
           /\ mqtt_connected' =
                  IF ~should_exit /\ AllDisconnected(list) THEN FALSE
                  ELSE mqtt_connected
           /\ IF k = 0
              THEN /\ mqtt_clients' = list
                   /\ main' = [main EXCEPT !.new_client_info.client.link = "connecting"]
              ELSE /\ mqtt_clients' = [list EXCEPT ![k].client.link = "connecting"]
                   /\ main' = main
           /\ history' = NotedAfterDisconnect(HistoryAfterDisconnect(k, b), b)
           /\ LogsReconnect(b) => stats.reconnects[b] < MaxReconnectsLogged
           /\ stats' = StatsAfterDisconnect(b)
           /\ ws_ping_threads' = PingThreadsAfterDisconnect(b)
           /\ ping_tasks' = PingTasksAfterDisconnect(b)
    /\ UNCHANGED <<fixedVars, cmdVars, connection_events, should_exit,
                   reconnect_delay>>

\* runner.handle_signal: the handler runs in the main task between any two
\* of its steps, until the main task is through
HandleSignal ==
    /\ ~should_exit
    /\ main.pc # "done"
    /\ should_exit' = TRUE
    /\ UNCHANGED <<cfgVars, cmdVars, history, mqtt_clients, mqtt_connected,
                   connection_events, reconnect_delay, main>>

\* ---- the main task: runner.run from the initial MQTT connection on ----

\* can _create_and_connect_broker(b) get as far as broker_client.connect()
CanCreate(b) == config[b]

\* connect_all_brokers, loop body for broker main.i up to the client's start
CabCreate(ok) ==
    /\ main.pc = "connect_all"
    /\ main.i < NumBrokers
    /\ LET b == main.i
       IN  /\ connection_events' = [connection_events EXCEPT ![b] = "clear"]
           /\ IF ok
              THEN /\ CanCreate(b)
                   /\ Len(mqtt_clients) < MaxRecords
                   /\ main' = [main EXCEPT !.pc = "cab_append",
                                           !.new_client_info = FreshRecord(b)]
                   /\ ws_ping_threads' = PingThreadsAfterCreate(ws_ping_threads, b)
                   /\ CanStartTask(b)
                   /\ ping_tasks' = PingTasksAfterCreate(ping_tasks, ws_ping_threads, b)
                   /\ CanMint(b)
                   /\ token_cache' = CacheAfterCredentials(token_cache, b, TRUE)
                   /\ credentials' = CredentialsReturned(token_cache, b, TRUE)
              ELSE /\ main' = [main EXCEPT !.i = b + 1]
                   /\ CanMint(b)
                   /\ \E mint_ok \in BOOLEAN :
                         /\ token_cache' = CacheAfterCredentials(token_cache, b, mint_ok)
                         /\ credentials' = CredentialsReturned(token_cache, b, mint_ok)
                   /\ UNCHANGED pingVars
    /\ UNCHANGED <<nonTokenVars, stats, cmdVars, history, mqtt_clients, mqtt_connected,
                   should_exit, reconnect_delay>>

\* state.mqtt_clients.append(client_info)
CabAppend ==
    /\ main.pc = "cab_append"
    /\ mqtt_clients' = Append(mqtt_clients, main.new_client_info)
    /\ main' = [main EXCEPT !.pc = "connect_all", !.i = main.i + 1,
                            !.new_client_info = NoRecord]
    /\ UNCHANGED <<cfgVars, cmdVars, history, mqtt_connected, connection_events,
                   should_exit, reconnect_delay>>

\* what runner.run does when connect_all_brokers returned False
InitialRoundFailed == [main EXCEPT !.pc = "retry_sleep",
                                   !.retry_count = main.retry_count + 1,
                                   !.i = 0, !.wait = 0]

\* connect_all_brokers after the loop: nothing to wait for, or start waiting
CabDispatched ==
    /\ main.pc = "connect_all"
    /\ main.i = NumBrokers
    /\ main' = IF Len(mqtt_clients) = 0
               THEN InitialRoundFailed
               ELSE [main EXCEPT !.pc = "cab_wait", !.i = 1, !.wait = 0]
    /\ UNCHANGED <<cfgVars, cmdVars, history, mqtt_clients, mqtt_connected,
                   connection_events, should_exit, reconnect_delay>>

\* event.wait(timeout=max_wait) for the record at main.i
CabWait ==
    /\ main.pc = "cab_wait"
    /\ main.i <= Len(mqtt_clients)
    /\ \/ connection_events[mqtt_clients[main.i].broker_idx] = "set"
       \/ main.wait >= max_wait
    /\ main' = [main EXCEPT !.i = main.i + 1, !.wait = 0]
    /\ UNCHANGED <<cfgVars, cmdVars, history, mqtt_clients, mqtt_connected,
                   connection_events, should_exit, reconnect_delay>>

\* connect_all_brokers returns state.mqtt_connected; on True the main loop
\* starts, and the events, which nothing waits for any more, and the retry
\* counter leave the state
CabResult ==
    /\ main.pc = "cab_wait"
    /\ main.i > Len(mqtt_clients)
    /\ IF mqtt_connected
       THEN /\ main' = [main EXCEPT !.pc = "loop_top", !.i = 0, !.wait = 0,
                                    !.retry_count = 0, !.stats_thread = TRUE]
            /\ connection_events' = [b \in Brokers |-> "none"]
       ELSE /\ main' = InitialRoundFailed
            /\ UNCHANGED connection_events
    /\ UNCHANGED <<cfgVars, cmdVars, history, mqtt_clients, mqtt_connected,
                   should_exit, reconnect_delay>>

\* one round more than max_initial_retries
RetriesLeft_one_more(retry_count) == retry_count <= max_initial_retries

\* while retry_count < max_initial_retries
RetriesLeft(retry_count) == retry_count < max_initial_retries

\* sleep(wait_time) is over: next round, or give up
RetrySleepDone ==
    /\ main.pc = "retry_sleep"
    /\ main.wait >= Min(main.retry_count * 2, MaxSleep)
    /\ IF RetriesLeft(main.retry_count)
       THEN /\ main' = [main EXCEPT !.pc = "connect_all", !.i = 0, !.wait = 0]
            /\ UNCHANGED should_exit
       ELSE /\ main' = [main EXCEPT !.pc = "returned", !.wait = 0]
            /\ should_exit' = TRUE
    /\ UNCHANGED <<cfgVars, cmdVars, history, mqtt_clients, mqtt_connected,
                   connection_events, reconnect_delay>>


\* runner._cleanup: the keepalive task of every record's broker is stopped
PingThreadsAfterCleanup ==
    [b \in Brokers |->
        IF FirstRecordOf(mqtt_clients, b) # 0
        THEN PingThreadsAfterStop(ws_ping_threads, b)[b]
        ELSE ws_ping_threads[b]]

\* and the tasks of these brokers are told to stop
RECURSIVE PingTasksStopped(_, _)
PingTasksStopped(p, bs) ==
    IF bs = {} THEN p
    ELSE LET b == CHOOSE x \in bs : TRUE
         IN  PingTasksStopped(PingTasksAfterStop(p, ws_ping_threads, b), bs \ {b})

PingTasksAfterCleanup ==
    PingTasksStopped(ping_tasks, {b \in Brokers : FirstRecordOf(mqtt_clients, b) # 0})

\* one operation of the cleanup, on the record at i of the list (0: on none)
CleanupOp(op, i) == [op |-> op, record |-> i, retain |-> FALSE]

\* the indices of the records marked connected, in the order of the list
ConnectedInOrder(list) ==
    SelectSeq([i \in 1..Len(list) |-> i], LAMBDA i : list[i].connected)

\* the operations of a cleanup that closes the serial link first
CleanupOps_closing_first(list) ==
    LET n == Len(list)
        conn == ConnectedInOrder(list)
    IN  (IF device = "open" THEN <<CleanupOp("close_serial", 0)>> ELSE <<>>)
        \o [k \in 1..n |-> CleanupOp("stop_ping", k)]
        \o [k \in 1..Len(conn) |->
               CleanupOp(IF mqtt_connected THEN "publish_offline" ELSE "skip_offline",
                         conn[k])]
        \o [k \in 1..(2 * n) |->
               IF k % 2 = 1 THEN CleanupOp("loop_stop", (k + 1) \div 2)
               ELSE CleanupOp("disconnect", k \div 2)]

\* the operations of runner._cleanup on the broker list, in their order:
\* the keepalive tasks are stopped, the offline status is published (through
\* safe_publish, which skips it if the bridge is not connected) on every
\* record marked connected, every client's loop is stopped and the client
\* disconnected, and the serial link is closed
CleanupOps(list) ==
    LET n == Len(list)
        conn == ConnectedInOrder(list)
    IN  [k \in 1..n |-> CleanupOp("stop_ping", k)]
        \o [k \in 1..Len(conn) |->
               CleanupOp(IF mqtt_connected THEN "publish_offline" ELSE "skip_offline",
                         conn[k])]
        \o [k \in 1..(2 * n) |->
               IF k % 2 = 1 THEN CleanupOp("loop_stop", (k + 1) \div 2)
               ELSE CleanupOp("disconnect", k \div 2)]
        \o (IF device = "open" THEN <<CleanupOp("close_serial", 0)>> ELSE <<>>)

\* state.stats after the cleanup: an offline status that safe_publish skips
\* counts as a failed publish
StatsAfterCleanup ==
    IF mqtt_connected THEN stats
    ELSE [stats EXCEPT !.publish_failures = @ + Len(ConnectedInOrder(mqtt_clients))]

\* a cleanup that leaves the broker clients running
Cleanup_leaving_clients ==
    /\ should_exit' = TRUE
    /\ main' = [main EXCEPT !.pc = "done", !.cleanup = CleanupOps(mqtt_clients)]
    /\ ws_ping_threads' = PingThreadsAfterCleanup
    /\ ping_tasks' = PingTasksAfterCleanup
    /\ stats' = StatsAfterCleanup
    /\ UNCHANGED <<fixedVars, cmdVars, history, mqtt_clients, mqtt_connected,
                   connection_events, reconnect_delay>>

\* runner._cleanup: every client of the list is stopped and disconnected
Cleanup ==
    /\ should_exit' = TRUE
    /\ mqtt_clients' = [i \in 1..Len(mqtt_clients) |-> StoppedRecord(mqtt_clients[i])]
    /\ main' = [main EXCEPT !.pc = "done", !.cleanup = CleanupOps(mqtt_clients)]
    /\ ws_ping_threads' = PingThreadsAfterCleanup
    /\ ping_tasks' = PingTasksAfterCleanup
    /\ stats' = StatsAfterCleanup
    /\ UNCHANGED <<fixedVars, cmdVars, history, mqtt_connected,
                   connection_events, reconnect_delay>>

\* top of the main loop: leave it for the cleanup, or go through the records
LoopTop ==
    /\ main.pc = "loop_top"
    /\ IF should_exit
       THEN Cleanup
       ELSE /\ main' = [main EXCEPT !.pc = "tick", !.i = 1]
            /\ UNCHANGED <<cfgVars, cmdVars, history, mqtt_clients, mqtt_connected,
                           connection_events, should_exit, reconnect_delay>>

\* the main task after the record at main.i: on to the next record, or, the
\* list being through, back to the top of the loop
AfterRecord ==
    IF main.i < Len(mqtt_clients)
    THEN [main EXCEPT !.pc = "tick", !.i = main.i + 1, !.new_client_info = NoRecord]
    ELSE [main EXCEPT !.pc = "loop_top", !.i = 0, !.new_client_info = NoRecord]

\* passing over the connected records only
TickSkips_connected(r) == r.connected

\* does reconnect_disconnected_brokers pass record r over
TickSkips(r) ==
    \/ r.connected
    \/ ~r.connecting_since.zero /\ r.connecting_since.ago < ConnectingWindow
    \/ 0 < r.reconnect_at

\* giving up only above the maximum (failed_attempts > max_reconnect_attempts)
TickEscalates_above(r) == r.failed_attempts > max_reconnect_attempts

\* does reconnect_disconnected_brokers give up at record r
TickEscalates(r) == r.failed_attempts >= max_reconnect_attempts

\* the record after a failed attempt to recreate its client
FailedAttemptRecord(r, jitter) ==
    [r EXCEPT !.failed_attempts = r.failed_attempts + 1,
              !.reconnect_at = Max(0, reconnect_delay + jitter)]

\* state.reconnect_delay after a failed attempt
GrownDelay(delay) == Min((delay * 3) \div 2, max_reconnect_delay)

\* reconnect_disconnected_brokers, loop body for the record at main.i
TickVisit(ok, jitter) ==
    /\ main.pc = "tick"
    /\ main.i <= Len(mqtt_clients)
    /\ LET r == mqtt_clients[main.i]
       IN  IF TickSkips(r)
           THEN /\ main' = AfterRecord
                /\ UNCHANGED <<mqtt_clients, should_exit, reconnect_delay, history,
                               pingVars, token_cache, credentials>>
           ELSE IF TickEscalates(r)
           THEN /\ should_exit' = TRUE
                /\ main' = [main EXCEPT !.pc = "loop_top", !.i = 0,
                                        !.escalated = TRUE]
                /\ UNCHANGED <<mqtt_clients, reconnect_delay, history, pingVars,
                               token_cache, credentials>>
           ELSE IF ok
           THEN /\ CanCreate(r.broker_idx)
                /\ mqtt_clients' = [mqtt_clients EXCEPT ![main.i] = StoppedRecord(r)]
                /\ main' = [main EXCEPT !.pc = "tick_install",
                               !.new_client_info = FreshRecord(r.broker_idx)]
                /\ history' = HistoryAfterRecreate(main.i, r.broker_idx, TRUE)
                /\ ws_ping_threads' =
                       PingThreadsAfterCreate(
                           PingThreadsAfterStop(ws_ping_threads, r.broker_idx),
                           r.broker_idx)
                /\ CanStartTask(r.broker_idx)
                /\ ping_tasks' =
                       PingTasksAfterCreate(
                           PingTasksAfterStop(ping_tasks, ws_ping_threads, r.broker_idx),
                           ws_ping_threads, r.broker_idx)
                /\ CanMint(r.broker_idx)
                /\ token_cache' = CacheAfterCredentials(
                                      ClearedCache(token_cache, r.broker_idx),
                                      r.broker_idx, TRUE)
                /\ credentials' = CredentialsReturned(
                                      ClearedCache(token_cache, r.broker_idx),
                                      r.broker_idx, TRUE)
                /\ UNCHANGED <<should_exit, reconnect_delay>>
           ELSE /\ mqtt_clients' = [mqtt_clients EXCEPT ![main.i] =
                                        FailedAttemptRecord(StoppedRecord(r), jitter)]
                /\ Explored(mqtt_clients')
                /\ reconnect_delay' = GrownDelay(reconnect_delay)
                /\ main' = AfterRecord
                /\ history' = CountedAfterFailure(
                                  HistoryAfterRecreate(main.i, r.broker_idx, FALSE),
                                  r.broker_idx)
                /\ ws_ping_threads' = PingThreadsAfterStop(ws_ping_threads, r.broker_idx)
                /\ ping_tasks' = PingTasksAfterStop(ping_tasks, ws_ping_threads,
                                                    r.broker_idx)
                /\ CanMint(r.broker_idx)
                /\ \E mint_ok \in BOOLEAN :
                      /\ token_cache' = CacheAfterCredentials(
                                            ClearedCache(token_cache, r.broker_idx),
                                            r.broker_idx, mint_ok)
                      /\ credentials' = CredentialsReturned(
                                            ClearedCache(token_cache, r.broker_idx),
                                            r.broker_idx, mint_ok)
                /\ UNCHANGED should_exit
    /\ UNCHANGED <<nonTokenVars, stats, cmdVars, mqtt_connected, connection_events>>

\* state.mqtt_clients[i] = new_client_info
TickInstall ==
    /\ main.pc = "tick_install"
    /\ mqtt_clients' = [mqtt_clients EXCEPT ![main.i] = main.new_client_info]
    /\ main' = AfterRecord
    /\ UNCHANGED <<cfgVars, cmdVars, history, mqtt_connected, connection_events,
                   should_exit, reconnect_delay>>

\* ---- time ----
AgedStamp(t, d, cap) == IF t.zero THEN t ELSE Ago(Min(t.ago + d, cap))

AgedRecord(r, d) ==
    [r EXCEPT !.connecting_since = AgedStamp(@, d, ConnectingWindow),
              !.connect_time = AgedStamp(@, d, StableAfter),
              !.reconnect_at = Max(0, @ - d * TicksPerSecond)]

\* d seconds pass while the main task waits, sleeps or is between two ticks
AdvanceTime(d) ==
    /\ main.pc \in {"cab_wait", "retry_sleep", "loop_top"}
    /\ mqtt_clients' = [i \in 1..Len(mqtt_clients) |-> AgedRecord(mqtt_clients[i], d)]
    /\ main' = [main EXCEPT !.wait = IF main.pc = "loop_top" THEN 0
                                     ELSE Min(main.wait + d, MaxSleep)]
    /\ token_cache' = AgedTokenCache(token_cache, d)
    /\ UNCHANGED <<uncachedVars, stats, pingVars, cmdVars, history,
                   mqtt_connected, connection_events, should_exit, reconnect_delay>>

(***************************************************************************)
(* Specifications.                                                         *)
(***************************************************************************)
InitMain ==
    [pc |-> "connect_all", retry_count |-> 0, i |-> 0,
     new_client_info |-> NoRecord, wait |-> 0, escalated |-> FALSE,
     cleanup |-> <<>>, stats_thread |-> FALSE]

\* the main task at the top of the main loop, the stats reporter started
LoopMain == [InitMain EXCEPT !.pc = "loop_top", !.stats_thread = TRUE]

\* the state in which runner.run reaches the initial MQTT connection
Init ==
    /\ config \in [Brokers -> BOOLEAN]
    /\ remote_serial_enabled = FALSE
    /\ remote_serial_allowed_companions = {}
    /\ repeater_priv_key = TRUE
    /\ device = "open"
    /\ client_id = NoClientId
    /\ InitCmdState
    /\ mqtt_clients = <<>>
    /\ mqtt_connected = FALSE
    /\ connection_events = [b \in Brokers |-> "none"]
    /\ should_exit = FALSE
    /\ reconnect_delay = initial_reconnect_delay
    /\ main = InitMain
    /\ history = HistoryOff

MainStep ==
    \/ \E ok \in BOOLEAN : CabCreate(ok)
    \/ CabAppend
    \/ CabDispatched
    \/ CabWait
    \/ CabResult
    \/ RetrySleepDone
    \/ LoopTop
    \/ \E ok \in BOOLEAN, jitter \in Jitter : TickVisit(ok, jitter)
    \/ TickInstall

Callback ==
    \/ \E k \in Holders, rc \in {0, 5} : OnConnect(k, rc)
    \/ \E k \in Holders : OnDisconnect(k)

Next ==
    \/ MainStep
    \/ Callback
    \/ HandleSignal
    \/ \E d \in TimeSteps : AdvanceTime(d)

Spec == Init /\ [][Next]_vars

\* runner.run from the initial MQTT connection up to the main loop
StartupStep ==
    \/ \E ok \in BOOLEAN : CabCreate(ok)
    \/ CabAppend
    \/ CabDispatched
    \/ CabWait
    \/ CabResult
    \/ RetrySleepDone

NextStartup ==
    \/ StartupStep
    \/ InStartup /\ Callback
    \/ InStartup /\ HandleSignal
    \/ \E d \in TimeSteps : InStartup /\ AdvanceTime(d)

SpecStartup == Init /\ [][NextStartup]_vars

\* the command handler over a fixed broker list, the main loop running
InitCmd ==
    /\ config = [b \in Brokers |-> TRUE]
    /\ remote_serial_enabled \in BOOLEAN
    /\ remote_serial_allowed_companions \in {{}, {"CC"}}
    /\ repeater_priv_key \in BOOLEAN
    /\ device \in {"open", "none"}
    /\ client_id = NoClientId
    /\ InitCmdState
    /\ \E conn \in [Brokers -> BOOLEAN] :
          /\ mqtt_clients = CmdBrokerList(conn)
          /\ mqtt_connected = (\E b \in Brokers : conn[b])
    /\ connection_events = [b \in Brokers |-> "none"]
    /\ should_exit = FALSE
    /\ reconnect_delay = initial_reconnect_delay
    /\ main = LoopMain
    /\ history = HistoryOff

\* the command handler of a bridge with remote serial enabled, the companion
\* allowed and the device open, over envelopes of the companion that differ
\* in their exp, the executed envelopes followed
LongLived == {[ValidEnvelope EXCEPT !.exp = x] : x \in {2, MaxClock}}

InitReplay ==
    /\ config = [b \in Brokers |-> TRUE]
    /\ remote_serial_enabled = TRUE
    /\ remote_serial_allowed_companions = {"CC"}
    /\ repeater_priv_key = TRUE
    /\ device = "open"
    /\ client_id = NoClientId
    /\ serial = InitLink
    /\ remote_serial_nonces = <<>>
    /\ clock = 1
    /\ handler = [b \in Brokers |-> IdleHandler]
    /\ exec_count = 0
    /\ exec_at = [n \in Nonces |-> 0]
    /\ executed = [on |-> TRUE, envs |-> {}]
    /\ last_response = {}
    /\ resp_count = 0
    /\ last_log = ""
    /\ broker_qos = [b \in Brokers |-> 0]
    /\ broker_retain = [b \in Brokers |-> TRUE]
    /\ parser = NoParser
    /\ stats = NoStats
    /\ published = PublishedOff
    /\ InitTokenOff
    /\ ws_ping_threads = [b \in Brokers |-> "tcp"]
    /\ ping_tasks = NoPingTasks
    /\ \E conn \in [Brokers -> BOOLEAN] :
          /\ mqtt_clients = CmdBrokerList(conn)
          /\ mqtt_connected = (\E b \in Brokers : conn[b])
    /\ connection_events = [b \in Brokers |-> "none"]
    /\ should_exit = FALSE
    /\ reconnect_delay = initial_reconnect_delay
    /\ main = LoopMain
    /\ history = HistoryOff

NextReplay ==
    \/ \E b \in Brokers, env \in LongLived : HandleStart(b, env)
    \/ \E b \in Brokers : HandleVerify(b)
    \/ \E b \in Brokers, success \in BOOLEAN : HandleExecute(b, success)
    \/ AdvanceClock

SpecReplay == InitReplay /\ [][NextReplay]_vars

NextCmd ==
    \/ \E b \in Brokers, env \in Envelopes : HandleStart(b, env)
    \/ \E b \in Brokers : HandleVerify(b)
    \/ \E b \in Brokers, success \in BOOLEAN : HandleExecute(b, success)
    \/ AdvanceClock

SpecCmd == InitCmd /\ [][NextCmd]_vars

\* the main loop of a bridge with one enabled broker, entered with that broker
\* connected, in an environment in which every client can be created; the
\* observer is switched on.  The main task keeps running and time keeps
\* passing; callbacks come as they may.
InitObserved ==
    /\ config = [b \in Brokers |-> b = 0]
    /\ remote_serial_enabled = FALSE
    /\ remote_serial_allowed_companions = {}
    /\ repeater_priv_key = TRUE
    /\ device = "open"
    /\ client_id = NoClientId
    /\ InitCmdState
    /\ mqtt_clients = <<[ConnectedRecord(FreshRecord(0)) EXCEPT !.client.link = "up"]>>
    /\ mqtt_connected = TRUE
    /\ connection_events = [b \in Brokers |-> "none"]
    /\ should_exit = FALSE
    /\ reconnect_delay = initial_reconnect_delay
    /\ main = LoopMain
    /\ history = NoHistory

LoopStep ==
    \/ LoopTop
    \/ \E jitter \in Jitter : TickVisit(TRUE, jitter)
    \/ TickInstall

TimePasses == \E d \in TimeSteps : AdvanceTime(d)

NextObserved ==
    \/ LoopStep
    \/ Callback
    \/ HandleSignal
    \/ TimePasses

SpecObserved ==
    /\ InitObserved
    /\ [][NextObserved]_vars
    /\ WF_vars(LoopStep)
    /\ WF_vars(TimePasses)

\* the main loop entered with every enabled broker connected, the failed
\* attempts to recreate a client counted
RECURSIVE ConnectedList(_)
ConnectedList(b) ==
    IF b >= NumBrokers THEN <<>>
    ELSE (IF config[b]
          THEN <<[ConnectedRecord(FreshRecord(b)) EXCEPT !.client.link = "up"]>>
          ELSE <<>>) \o ConnectedList(b + 1)

InitBackoff ==
    /\ config \in {c \in [Brokers -> BOOLEAN] : c[0]}
    /\ remote_serial_enabled = FALSE
    /\ remote_serial_allowed_companions = {}
    /\ repeater_priv_key = TRUE
    /\ device = "open"
    /\ client_id = NoClientId
    /\ InitCmdState
    /\ mqtt_clients = ConnectedList(0)
    /\ mqtt_connected = TRUE
    /\ connection_events = [b \in Brokers |-> "none"]
    /\ should_exit = FALSE
    /\ reconnect_delay = initial_reconnect_delay
    /\ main = LoopMain
    /\ history = CountedHistory

LoopStepBackoff ==
    \/ LoopTop
    \/ \E ok \in BOOLEAN, jitter \in Jitter : TickVisit(ok, jitter)
    \/ TickInstall

NextBackoff ==
    \/ LoopStepBackoff
    \/ Callback
    \/ HandleSignal
    \/ TimePasses

SpecBackoff == InitBackoff /\ [][NextBackoff]_vars

\* the main loop of a bridge entered with every broker connected, all over
\* tcp or broker 0 over websockets with its keepalive task running, in an
\* environment in which every client can be created; the times of the
\* disconnects are logged in the statistics
InitRunning ==
    /\ config = [b \in Brokers |-> TRUE]
    /\ remote_serial_enabled = FALSE
    /\ remote_serial_allowed_companions = {}
    /\ repeater_priv_key = TRUE
    /\ device = "open"
    /\ client_id = NoClientId
    /\ InitCmdCore
    /\ broker_qos = [b \in Brokers |-> 0]
    /\ broker_retain = [b \in Brokers |-> TRUE]
    /\ parser = NoParser
    /\ stats = CountedStats
    /\ published = PublishedOff
    /\ InitTokenOff
    /\ ws_ping_threads \in {[b \in Brokers |-> "tcp"],
                            [b \in Brokers |-> IF b = 0 THEN "active" ELSE "tcp"]}
    /\ ping_tasks = NoPingTasks
    /\ mqtt_clients = ConnectedList(0)
    /\ mqtt_connected = TRUE
    /\ connection_events = [b \in Brokers |-> "none"]
    /\ should_exit = FALSE
    /\ reconnect_delay = initial_reconnect_delay
    /\ main = LoopMain
    /\ history = ShutdownHistory

NextRunning ==
    \/ LoopStep
    \/ Callback
    \/ HandleSignal
    \/ TimePasses

\* the main task keeps running
SpecRunning == InitRunning /\ [][NextRunning]_vars /\ WF_vars(LoopStep)

\* the main loop of a bridge whose broker 0 is connected over websockets,
\* its keepalive task asleep, with the keepalive tasks followed
InitPing ==
    /\ config = [b \in Brokers |-> b = 0]
    /\ remote_serial_enabled = FALSE
    /\ remote_serial_allowed_companions = {}
    /\ repeater_priv_key = TRUE
    /\ device = "open"
    /\ client_id = NoClientId
    /\ InitCmdCore
    /\ broker_qos = [b \in Brokers |-> 0]
    /\ broker_retain = [b \in Brokers |-> TRUE]
    /\ parser = NoParser
    /\ stats = NoStats
    /\ published = PublishedOff
    /\ InitTokenOff
    /\ ws_ping_threads = [b \in Brokers |-> IF b = 0 THEN "active" ELSE "tcp"]
    /\ ping_tasks = [on |-> TRUE,
                     tasks |-> <<[StartedTask(0) EXCEPT !.pc = "sleeping"]>>]
    /\ mqtt_clients = ConnectedList(0)
    /\ mqtt_connected = TRUE
    /\ connection_events = [b \in Brokers |-> "none"]
    /\ should_exit = FALSE
    /\ reconnect_delay = initial_reconnect_delay
    /\ main = LoopMain
    /\ history = HistoryOff

PingStep(t) ==
    \/ \E sock \in BOOLEAN : PingWake(t, sock)
    \/ PingCheck(t)

NextPing ==
    \/ LoopStep
    \/ Callback
    \/ TimePasses
    \/ \E t \in 1..MaxPingTasks : PingStep(t)

\* every keepalive task keeps running
SpecPing ==
    InitPing /\ [][NextPing]_vars /\ \A t \in 1..MaxPingTasks : WF_vars(PingStep(t))

\* what the device sent back by the time the response is read
Responses == {"answer", "other", "nothing"}

\* a caller calls the method on the connection object
QueryCall(m) ==
    /\ serial.query.pc \in {"idle", "returned", "raised"}
    /\ serial.query.calls < MaxQueries
    /\ serial.current # NoDevice
    /\ serial' = [serial EXCEPT !.query = [method |-> m, pc |-> "called",
                                          io_error |-> FALSE, result |-> "none",
                                          calls |-> @.calls + 1]]
    /\ UNCHANGED nonSerialVars

\* reset_input_buffer, reset_output_buffer and write on the open port
QueryWrite ==
    /\ serial.query.pc = "called"
    /\ serial.open[serial.current]
    /\ serial' = [serial EXCEPT !.query.pc = "written"]
    /\ UNCHANGED nonSerialVars

\* what a getter makes of the response: the value after the marker, or None
GetterResult(response) == IF response = "answer" THEN "value" ELSE "None"

\* what execute_command returns when the timeout or the prompt ends its
\* reading: the text, or "(no output)" for none, in both cases with True
ExecuteResult(response) ==
    IF response = "nothing" THEN "(True, (no output))" ELSE "(True, text)"

\* the response is read and the method returns: a getter parses it,
\* execute_command returns (True, text) whatever came
QueryRead(response) ==
    /\ serial.query.pc = "written"
    /\ serial.open[serial.current]
    /\ serial' = [serial EXCEPT
                   !.query.pc = "returned",
                   !.query.result = IF serial.query.method \in Getters
                                    THEN GetterResult(response)
                                    ELSE ExecuteResult(response)]
    /\ UNCHANGED nonSerialVars

\* does the method catch what the port raises: execute_command has
\* `except serial.SerialException` and `except Exception`, a getter calls
\* _send with no handler around it
Catches(m) == m = "execute_command"

\* port I/O raises serial.SerialException, as it does on every call once the
\* port is closed
QueryRaises ==
    /\ serial.query.pc \in {"called", "written"}
    /\ serial' = [serial EXCEPT
                   !.query.io_error = TRUE,
                   !.query.pc = IF Catches(serial.query.method)
                                THEN "returned" ELSE "raised",
                   !.query.result = IF Catches(serial.query.method)
                                    THEN "(False, reason)" ELSE "none"]
    /\ UNCHANGED nonSerialVars

\* close() on the connection object, between two calls
QueryClose ==
    /\ serial.query.pc \in {"idle", "returned", "raised"}
    /\ serial.current # NoDevice
    /\ serial.open[serial.current]
    /\ serial' = [serial EXCEPT !.open[serial.current] = FALSE]
    /\ UNCHANGED nonSerialVars

\* one caller on one connection object: the getters and execute_command are
\* called, the port raises or answers, and the object may be closed
NextQuery ==
    \/ \E m \in Methods : QueryCall(m)
    \/ QueryWrite
    \/ \E response \in Responses : QueryRead(response)
    \/ QueryRaises
    \/ QueryClose

\* the main loop of a bridge entered with every broker connected, broker 0
\* with token auth and its token of the startup in the cache, broker 1 with
\* a password, in an environment in which every client can be created
InitReconnect ==
    /\ config = [b \in Brokers |-> TRUE]
    /\ remote_serial_enabled = FALSE
    /\ remote_serial_allowed_companions = {}
    /\ repeater_priv_key = TRUE
    /\ device = "open"
    /\ client_id = NoClientId
    /\ InitCmdCore
    /\ broker_qos = [b \in Brokers |-> 0]
    /\ broker_retain = [b \in Brokers |-> TRUE]
    /\ parser = NoParser
    /\ stats = NoStats
    /\ published = PublishedOff
    /\ broker_auth = [b \in Brokers |->
          IF b = 0
          THEN [method |-> "token", audience |-> "aud", owner |-> NoValue,
                email |-> NoValue, tls_enabled |-> TRUE, tls_verify |-> TRUE]
          ELSE [NoAuth EXCEPT !.method = "password"]]
    /\ token_cache = CacheAfterCredentials(NoTokenCache, 0, TRUE)
    /\ credentials = NoCredentials
    /\ ws_ping_threads = [b \in Brokers |-> "tcp"]
    /\ ping_tasks = NoPingTasks
    /\ mqtt_clients = ConnectedList(0)
    /\ mqtt_connected = TRUE
    /\ connection_events = [b \in Brokers |-> "none"]
    /\ should_exit = FALSE
    /\ reconnect_delay = initial_reconnect_delay
    /\ main = LoopMain
    /\ history = HistoryOff

NextReconnect ==
    \/ LoopStep
    \/ Callback
    \/ TimePasses

SpecReconnect == InitReconnect /\ [][NextReconnect]_vars

\* a record that has lost its connection and is due for a reconnect
DueRecord(b) ==
    [FreshRecord(b) EXCEPT !.connecting_since = NoTime,
                           !.connect_time = Ago(StableAfter)]

\* the main loop with both brokers on token auth, their tokens of the
\* startup in the cache, both connections lost and due for a reconnect, in
\* an environment in which the creation of a client may fail
InitRecreate ==
    /\ config = [b \in Brokers |-> TRUE]
    /\ remote_serial_enabled = FALSE
    /\ remote_serial_allowed_companions = {}
    /\ repeater_priv_key = TRUE
    /\ device = "open"
    /\ client_id = NoClientId
    /\ InitCmdCore
    /\ broker_qos = [b \in Brokers |-> 0]
    /\ broker_retain = [b \in Brokers |-> TRUE]
    /\ parser = NoParser
    /\ stats = NoStats
    /\ published = PublishedOff
    /\ broker_auth = [b \in Brokers |->
          [method |-> "token", audience |-> "aud", owner |-> NoValue,
           email |-> NoValue, tls_enabled |-> TRUE, tls_verify |-> TRUE]]
    /\ token_cache = CacheAfterCredentials(
                         CacheAfterCredentials(NoTokenCache, 0, TRUE), 1, TRUE)
    /\ credentials = NoCredentials
    /\ ws_ping_threads = [b \in Brokers |-> "tcp"]
    /\ ping_tasks = NoPingTasks
    /\ mqtt_clients = [i \in 1..NumBrokers |-> DueRecord(i - 1)]
    /\ mqtt_connected = FALSE
    /\ connection_events = [b \in Brokers |-> "none"]
    /\ should_exit = FALSE
    /\ reconnect_delay = initial_reconnect_delay
    /\ main = LoopMain
    /\ history = HistoryOff

NextRecreate ==
    \/ LoopStepBackoff
    \/ \E k \in Holders : OnDisconnect(k)
    \/ TimePasses

SpecRecreate == InitRecreate /\ [][NextRecreate]_vars

\* the device link alone: the main task, the stats reporter and two command
\* handlers calling into it
NextLink ==
    \/ StatsCheck
    \/ \E t \in LinkTasks : Call(t)
    \/ \E t \in LinkTasks : Acquire(t)
    \/ \E t \in Requesters : WriteRequest(t)
    \/ \E t \in Requesters : ReadResponse(t)
    \/ \E t \in LinkTasks : Raises(t)
    \/ \E got \in BOOLEAN : ReadLine(got)
    \/ CloseStart
    \/ CloseDone
    \/ \E ok \in BOOLEAN : Connect(ok)

InitDevice == Init /\ config = [b \in Brokers |-> TRUE]

SpecLink == InitDevice /\ [][NextLink]_vars

SpecQuery == InitDevice /\ [][NextQuery]_vars

\* publishing over a fixed broker list while connections come and go: the
\* parser and the stats task publish events, the network tasks deliver
\* callbacks; the publish calls are kept
InitPublish ==
    /\ config = [b \in Brokers |-> TRUE]
    /\ remote_serial_enabled \in BOOLEAN
    /\ remote_serial_allowed_companions = {"CC"}
    /\ repeater_priv_key = TRUE
    /\ device = "open"
    /\ client_id = NoClientId
    /\ InitCmdCore
    /\ broker_qos \in [Brokers -> QosValues]
    /\ broker_retain \in [Brokers -> BOOLEAN]
    /\ parser = NoParser
    /\ stats = NoStats
    /\ published = NoPublished
    /\ InitTokenOff
    /\ ws_ping_threads = [b \in Brokers |-> "tcp"]
    /\ ping_tasks = NoPingTasks
    /\ \E conn \in [Brokers -> BOOLEAN] :
          /\ mqtt_clients = CmdBrokerList(conn)
          /\ mqtt_connected = (\E b \in Brokers : conn[b])
    /\ connection_events = [b \in Brokers |-> "none"]
    /\ should_exit = FALSE
    /\ reconnect_delay = initial_reconnect_delay
    /\ main = LoopMain
    /\ history = HistoryOff

NextPublish ==
    \/ \E kind \in EventKinds, accepted \in [1..NumBrokers -> BOOLEAN] :
          SafePublish(kind, accepted)
    \/ Callback

SpecPublish == InitPublish /\ [][NextPublish]_vars

\* sanitize_client_id applied to a name under a prefix, and to its result
InitClientId ==
    /\ config = [b \in Brokers |-> TRUE]
    /\ remote_serial_enabled = FALSE
    /\ remote_serial_allowed_companions = {}
    /\ repeater_priv_key = TRUE
    /\ device = "open"
    /\ \E name \in Names, prefix \in Prefixes :
          client_id = [NoClientId EXCEPT !.pc = "name", !.name = name,
                                         !.prefix = prefix]
    /\ InitCmdState
    /\ mqtt_clients = <<>>
    /\ mqtt_connected = FALSE
    /\ connection_events = [b \in Brokers |-> "none"]
    /\ should_exit = FALSE
    /\ reconnect_delay = initial_reconnect_delay
    /\ main = InitMain
    /\ history = NoHistory

NextClientId ==
    \/ Sanitize
    \/ SanitizeAgain

SpecClientId == InitClientId /\ [][NextClientId]_vars

\* the parser alone, fed with lines: debug mode on or off, the debug topic
\* and the packets topic configured or not, each broker connected or not
InitParser ==
    /\ config = [b \in Brokers |-> TRUE]
    /\ remote_serial_enabled = FALSE
    /\ remote_serial_allowed_companions = {}
    /\ repeater_priv_key = TRUE
    /\ device = "open"
    /\ client_id = NoClientId
    /\ InitCmdCore
    /\ broker_qos = [b \in Brokers |-> 0]
    /\ broker_retain = [b \in Brokers |-> TRUE]
    /\ \E debug \in BOOLEAN, topics \in SUBSET {"debug", "packets"} :
          parser = [NoParser EXCEPT !.on = TRUE, !.debug = debug, !.topics = topics]
    /\ stats = NoStats
    /\ published = NoPublished
    /\ InitTokenOff
    /\ ws_ping_threads = [b \in Brokers |-> "tcp"]
    /\ ping_tasks = NoPingTasks
    /\ \E conn \in [Brokers -> BOOLEAN] :
          /\ mqtt_clients = CmdBrokerList(conn)
          /\ mqtt_connected = (\E b \in Brokers : conn[b])
    /\ connection_events = [b \in Brokers |-> "none"]
    /\ should_exit = FALSE
    /\ reconnect_delay = initial_reconnect_delay
    /\ main = InitMain
    /\ history = NoHistory

NextParser ==
    \E line \in Lines, accepted \in [1..NumBrokers -> BOOLEAN] :
        ParseAndPublish(line, accepted)

SpecParser == InitParser /\ [][NextParser]_vars

\* credential generation for two brokers while time passes: broker 0 with
\* any configuration, broker 1 a token-auth broker with audience, owner and
\* email given and tls enabled, verified or not
InitToken ==
    /\ config = [b \in Brokers |-> TRUE]
    /\ remote_serial_enabled = FALSE
    /\ remote_serial_allowed_companions = {}
    /\ repeater_priv_key \in BOOLEAN
    /\ device = "open"
    /\ client_id = NoClientId
    /\ InitCmdCore
    /\ broker_qos = [b \in Brokers |-> 0]
    /\ broker_retain = [b \in Brokers |-> TRUE]
    /\ parser = NoParser
    /\ stats = NoStats
    /\ published = PublishedOff
    /\ \E a0 \in AuthConfigs, v \in BOOLEAN :
          broker_auth = [b \in Brokers |->
              IF b = 0 THEN a0
              ELSE [method |-> "token", audience |-> "aud", owner |-> "own",
                    email |-> "E@x", tls_enabled |-> TRUE, tls_verify |-> v]]
    /\ token_cache = NoTokenCache
    /\ credentials = NoCredentials
    /\ ws_ping_threads = [b \in Brokers |-> "tcp"]
    /\ ping_tasks = NoPingTasks
    /\ mqtt_clients = <<>>
    /\ mqtt_connected = FALSE
    /\ connection_events = [b \in Brokers |-> "none"]
    /\ should_exit = FALSE
    /\ reconnect_delay = initial_reconnect_delay
    /\ main = InitMain
    /\ history = HistoryOff

NextToken ==
    \/ \E b \in Brokers, force_refresh \in BOOLEAN, mint_ok \in BOOLEAN :
          GenerateAuthCredentials(b, force_refresh, mint_ok)
    \/ \E d \in TokenTimeSteps : TokenTimePasses(d)

SpecToken == InitToken /\ [][NextToken]_vars

(***************************************************************************)
(* Properties of the command handler, checked under SpecCmd.               *)
(***************************************************************************)

\* broker b's message callback goes from position p to position q
Moves(b, p, q) == handler[b].pc = p /\ handler'[b].pc = q

\* nonce n is in the nonce map, recorded within the last nonce_ttl seconds
StoredWithinTtl(n) ==
    /\ n \in DOMAIN remote_serial_nonces
    /\ clock - remote_serial_nonces[n] <= NonceTtl

\* the exp claim of payload p names a time before now
ExpInPast(p, now) == p.has_exp /\ p.exp < now

\* the checks handle_serial_command is to make on payload p before it verifies
\* the signature, evaluated in the state in which the message is processed
PassesEarlyChecks(p) ==
    /\ remote_serial_enabled
    /\ remote_serial_allowed_companions # {}
    /\ p.publicKey # "" /\ p.command # <<>> /\ p.target # "" /\ p.nonce # ""
    /\ KeyUpper(p.target) = repeater_pub_key
    /\ KeyUpper(p.publicKey) \in remote_serial_allowed_companions
    /\ ~ExpInPast(p, clock)
    /\ ~StoredWithinTtl(p.nonce)

\* C1: execute_command is called for an envelope only if remote serial is
\* enabled, the allowlist is non-empty, the payload decoded with publicKey,
\* command, target and nonce non-empty, target is the node's key, publicKey is
\* allowed, exp is not in the past and the nonce is not in the nonce map when
\* the message is processed, the signature verified, and the command starts
\* with no disallowed prefix; a failed check stops the processing.
C1_ExecuteOnlyAfterAllChecks ==
    [][/\ \A b \in Brokers :
            /\ Moves(b, "idle", "verify") => PassesEarlyChecks(handler'[b].payload)
            /\ Moves(b, "verify", "execute") =>
                  /\ handler[b].payload.sig_ok
                  /\ \A i \in 1..Len(remote_serial_disallowed_commands) :
                        ~StartsWith(StrLower(handler[b].payload.command),
                                    StrLower(remote_serial_disallowed_commands[i]))
       /\ exec_count' # exec_count => \E b \in Brokers : Moves(b, "execute", "idle")
      ]_vars

\* the publish calls of a message callback that answers and returns before
\* the nonce check
RejectionPublished ==
    IF resp_count' # resp_count /\ handler' = handler THEN last_response' ELSE {}

\* C2 (as stated): a command whose nonce is stored in the nonce map, recorded
\* within the last nonce_ttl seconds, is neither executed nor answered on any
\* broker, whatever its other fields are.
C2_ReplayNeitherExecutedNorAnswered ==
    [][/\ \A b \in Brokers :
            Moves(b, "idle", "verify") => ~StoredWithinTtl(handler'[b].payload.nonce)
       /\ \A r \in RejectionPublished : ~StoredWithinTtl(r.request_id)
      ]_vars

\* C2 (amended): a command whose nonce is stored in the nonce map, recorded
\* within the last nonce_ttl seconds, never gets past the nonce check, so it
\* is not executed; the only responses it can draw are the failures
\* "Unauthorized companion" and "Command expired" of the two checks that
\* come before the nonce check.
C2_ReplayNotExecuted ==
    [][/\ \A b \in Brokers :
            Moves(b, "idle", "verify") => ~StoredWithinTtl(handler'[b].payload.nonce)
       /\ \A r \in RejectionPublished :
            StoredWithinTtl(r.request_id) =>
                /\ ~r.success
                /\ r.response \in {"Unauthorized companion", "Command expired"}
      ]_vars

\* a replay has arrived and was dropped at the nonce check: the command was
\* executed once, its nonce is still stored, and the handler's latest log line
\* reports the duplicate
C2_ReplayDropped ==
    /\ last_log = "Duplicate nonce detected"
    /\ exec_count = 1
    /\ \E n \in Nonces : StoredWithinTtl(n) /\ exec_at[n] # 0
    /\ \A b \in Brokers : handler[b].pc = "idle"

\* C3: for any nonce, execute_command is invoked at most once within
\* nonce_ttl seconds, however the message callbacks of different broker
\* clients interleave: a callback that executes finds no execution of the
\* same nonce accepted within the nonce_ttl seconds before its own acceptance.
C3_ExecutedOncePerNonce ==
    [][\A b \in Brokers :
          Moves(b, "execute", "idle") =>
              LET n == handler[b].payload.nonce
              IN  \/ exec_at[n] = 0
                  \/ handler[b].current_time - exec_at[n] > NonceTtl
      ]_vars

\* the message callback of broker b runs handle_serial_command on env
Handles(b, env) == IsSerialCommandsTopic(env.topic) /\ HandleStart(b, env)

\* env gets as far as the allowlist check
ReachesAllowlist(env) ==
    /\ remote_serial_enabled
    /\ remote_serial_allowed_companions # {}
    /\ env.decodable
    /\ env.publicKey # "" /\ env.command # <<>> /\ env.target # "" /\ env.nonce # ""
    /\ KeyUpper(env.target) = repeater_pub_key

\* the step publishes a failure response with this text for this command
FailurePublished(command, nonce, text) ==
    /\ resp_count' > resp_count
    /\ \A m \in last_response' :
          /\ m.command = command /\ m.request_id = nonce
          /\ ~m.success /\ m.response = text

\* the records a response can be published to
ConnectedRecords == {i \in 1..Len(mqtt_clients) : mqtt_clients[i].connected}

\* the step publishes that failure response if the node can sign it and a
\* broker is connected, and publishes nothing if not
FailurePublishedIfPossible(command, nonce, text) ==
    IF repeater_priv_key /\ ConnectedRecords # {}
    THEN FailurePublished(command, nonce, text)
    ELSE UNCHANGED <<resp_count, last_response>>

ReachesExpiry(env) ==
    /\ ReachesAllowlist(env)
    /\ KeyUpper(env.publicKey) \in remote_serial_allowed_companions

\* C14: an envelope that passed the target and allowlist checks goes on to
\* the nonce check only if its exp claim is present and not earlier than the
\* current time; when exp is absent or in the past, the failure response
\* "Command expired" is published (the node being able to sign it and a broker
\* being connected), execute_command is not called and the nonce is not
\* recorded.
C14_AbsentOrPastExpRejected ==
    [][\A b \in Brokers, env \in Envelopes :
          (/\ ~env.has_exp \/ env.exp < clock
           /\ ReachesExpiry(env)
           /\ Handles(b, env)) =>
              /\ handler'[b].pc = "idle"
              /\ FailurePublishedIfPossible(env.command, env.nonce, "Command expired")
              /\ UNCHANGED <<exec_count, remote_serial_nonces>>
      ]_vars

\* the callback of broker b runs verify_token and goes on from it
Verifies(b) == handler[b].pc = "verify" /\ handler'[b].pc # "verify"

\* nonce n is put into the nonce map, or its time is set anew
Recorded(n) ==
    /\ n \in DOMAIN remote_serial_nonces'
    /\ n \in DOMAIN remote_serial_nonces =>
          remote_serial_nonces'[n] # remote_serial_nonces[n]

\* a nonce is recorded only by a callback whose verify_token succeeded on it
RecordedOnlyVerified ==
    \A n \in Nonces : Recorded(n) =>
        \E b \in Brokers : /\ Verifies(b)
                           /\ handler[b].payload.sig_ok
                           /\ handler[b].payload.nonce = n

MatchedRules(command) ==
    {i \in 1..Len(remote_serial_disallowed_commands) :
        StartsWith(StrLower(StrStrip(command)),
                   StrLower(remote_serial_disallowed_commands[i]))}

\* the step publishes one response, to every connected record, and it is the
\* failure "Command blocked: <rule>" with a rule the command matches
BlockedPublished(command, nonce) ==
    /\ FailurePublished(command, nonce, "Command blocked")
    /\ resp_count' = resp_count + Cardinality(ConnectedRecords)
    /\ \A m \in last_response' :
          \E i \in MatchedRules(command) : m.rule = remote_serial_disallowed_commands[i]

C17_EarlyRejectionSilent ==
    [][\A b \in Brokers, env \in Envelopes :
          (~ReachesAllowlist(env) /\ Handles(b, env))
              => /\ UNCHANGED <<resp_count, last_response, published>>
                 /\ UNCHANGED <<exec_count, exec_at, handler>>
                 /\ UNCHANGED <<remote_serial_nonces, stats>>
      ]_vars

\* an envelope for another node has been dropped by a node that could have
\* answered it: it has its private key and a connected broker
C17_WrongTargetDropped ==
    /\ last_log = "Command target doesn't match our key"
    /\ repeater_priv_key /\ ConnectedRecords # {}
    /\ resp_count = 0 /\ exec_count = 0
    /\ DOMAIN remote_serial_nonces = {}

\* the responses of the step answer the envelope the callback of broker b
\* is working on
AnswersEnvelopeOf(b) ==
    IF handler[b].pc = "idle"
    THEN \E env \in Envelopes :
            /\ Handles(b, env)
            /\ \A m \in last_response' :
                  m.request_id = env.nonce /\ m.command = env.command
    ELSE /\ handler'[b] = IdleHandler
         /\ \A m \in last_response' :
               /\ m.request_id = handler[b].payload.nonce
               /\ m.command = handler[b].payload.command

\* C18: every command response, success or failure, is published with QoS 1
\* on the node's serial/responses topic, once to every broker record whose
\* connected flag is true at that moment and to no record whose flag is
\* false; its request_id is the nonce of the envelope and its command is the
\* command of the envelope.  The result of an executed command is such a
\* response.
C18_ResponsesBroadcast ==
    [][/\ resp_count' # resp_count
          => /\ {m.record : m \in last_response'} = ConnectedRecords
             /\ resp_count' = resp_count + Cardinality(ConnectedRecords)
             /\ \A m \in last_response' :
                   /\ m.qos = 1
                   /\ m.topic = "meshcore/TST/AA/serial/responses"
                   /\ m.broker_idx = mqtt_clients[m.record].broker_idx
             /\ \A m1, m2 \in last_response' : m1.record = m2.record => m1 = m2
             /\ \E b \in Brokers : AnswersEnvelopeOf(b)
       /\ \A b \in Brokers :
             (/\ handler[b].pc = "execute" /\ handler'[b] = IdleHandler
              /\ repeater_priv_key /\ ConnectedRecords # {})
                 => /\ resp_count' > resp_count
                    /\ \A m \in last_response' :
                          m.response \in {"device output", "device error"}
      ]_vars

\* the result of an executed command has gone to both brokers, the one the
\* command arrived on and the other
C18_ResultOnEveryBroker ==
    /\ exec_count > 0
    /\ Cardinality(last_response) = NumBrokers
    /\ \A m \in last_response :
          /\ m.success /\ m.response = "device output"
          /\ m.request_id = "n1" /\ m.qos = 1

(***************************************************************************)
(* Properties of the broker manager, checked under Spec.                   *)
(***************************************************************************)

\* the main task takes a step of reconnect_disconnected_brokers
TickStep == main.pc = "tick" /\ main' # main

\* the record that step is at
TickRecord == mqtt_clients[main.i]

\* the step is a connect attempt: the old client is stopped and a new one
\* created, successfully or not
TickAttempts ==
    /\ TickStep
    /\ \/ mqtt_clients' # mqtt_clients
       \/ main'.pc = "tick_install"

\* the main task starts a broker client
ClientStarted ==
    /\ main'.new_client_info.client.loop = "running"
    /\ main.new_client_info.client.loop # "running"

AllClientsStopped(list) ==
    \A i \in 1..Len(list) : list[i].client.loop = "stopped"

\* C4: once a record has max_reconnect_attempts failed attempts, the next
\* reconnect tick that reaches it (does not pass it over) sets the shutdown
\* flag and returns with no connect attempt; the main task's next step is to
\* leave the loop and run the cleanup; from the escalation on no client is
\* started and no connect attempt made.
C4_EscalationAfterMaxAttempts ==
    [][/\ (TickStep /\ ~TickSkips(TickRecord)
               /\ TickRecord.failed_attempts >= max_reconnect_attempts) =>
            /\ should_exit'
            /\ main'.escalated /\ main'.pc = "loop_top"
            /\ ~TickAttempts /\ ~ClientStarted
       /\ main.escalated =>
            /\ should_exit /\ should_exit'
            /\ ~ClientStarted
            /\ main.pc \in {"loop_top", "done"}
            /\ main' # main =>
                  (main.pc = "loop_top" /\ main'.pc = "done"
                      /\ AllClientsStopped(mqtt_clients'))
      ]_vars

\* twelve failed attempts to recreate the client brought a record to the
\* maximum, the tick after gave up, and the main task left the loop and
\* stopped every client
C4_EscalatedAndCleanedUp ==
    /\ main.escalated /\ main.pc = "done" /\ should_exit
    /\ reconnect_delay = max_reconnect_delay
    /\ \E i \in 1..Len(mqtt_clients) :
          mqtt_clients[i].failed_attempts = max_reconnect_attempts
    /\ AllClientsStopped(mqtt_clients)

\* C7 (as stated): in every reachable state, a record whose failed_attempts
\* is at or above max_reconnect_attempts has the shutdown flag set.
C7_MaxAttemptsImpliesExit ==
    \A i \in 1..Len(mqtt_clients) :
        mqtt_clients[i].failed_attempts >= max_reconnect_attempts => should_exit

\* C7 (amended): a record can stand at max_reconnect_attempts or above with
\* the flag clear until the reconnect loop reaches it; the tick that reaches
\* it sets the flag, and the reconnect loop never raises a counter that is
\* at or above the maximum nor makes a connect attempt for its record.
C7_MaxAttemptsEscalatedAtNextTick ==
    [][(TickStep /\ TickRecord.failed_attempts >= max_reconnect_attempts) =>
            /\ ~TickSkips(TickRecord) => should_exit'
            /\ mqtt_clients' = mqtt_clients
            /\ main'.new_client_info = main.new_client_info
      ]_vars

\* a record has reached the maximum and the flag is still clear
C7_MaxAttemptsFlagClear ==
    /\ ~should_exit
    /\ \E i \in 1..Len(mqtt_clients) :
          mqtt_clients[i].failed_attempts = max_reconnect_attempts

\* C8: a record that is connected has connecting_since = 0, and a record
\* fresh from _create_and_connect_broker has connected = false and a
\* non-zero connecting_since.
C8_ConnectedNotConnecting ==
    /\ \A i \in 1..Len(mqtt_clients) :
          mqtt_clients[i].connected => mqtt_clients[i].connecting_since = NoTime
    /\ main.new_client_info.client.loop = "running" =>
          /\ ~main.new_client_info.connected
          /\ main.new_client_info.connecting_since # NoTime

\* one record is connected while a fresh record waits to be installed
C8_ConnectedBesideFresh ==
    /\ main.pc = "tick_install"
    /\ main.new_client_info.client.loop = "running"
    /\ \E i \in 1..Len(mqtt_clients) :
          mqtt_clients[i].connected /\ ~mqtt_clients[i].connect_time.zero

\* the records of broker b, and its clients whose loop runs
RecordsOf(b) == {i \in 1..Len(mqtt_clients) : mqtt_clients[i].broker_idx = b}
RunningClientsOf(b) ==
    {k \in Holders : RecordAt(k).broker_idx = b /\ RecordAt(k).client.loop = "running"}

\* C9: the broker list holds at most one record per broker index, and at
\* most one client per broker has a started, not stopped network loop.
C9_OneRecordPerBroker ==
    \A b \in Brokers :
        /\ Cardinality(RecordsOf(b)) <= 1
        /\ Cardinality(RunningClientsOf(b)) <= 1

\* the enabled brokers' indices in declaration order
RECURSIVE EnabledFrom(_)
EnabledFrom(b) ==
    IF b >= NumBrokers THEN <<>>
    ELSE IF config[b] THEN <<b>> \o EnabledFrom(b + 1)
    ELSE EnabledFrom(b + 1)

\* C10: once the initial connect has reported success, the broker list holds
\* one record for every enabled broker, in declaration order, for as long as
\* the process lives.
C10_RecordForEveryEnabledBroker ==
    main.pc \in {"loop_top", "tick", "tick_install", "done"} =>
        [i \in 1..Len(mqtt_clients) |-> mqtt_clients[i].broker_idx] = EnabledFrom(0)

(***************************************************************************)
(* Properties of the escalation, checked under SpecObserved.               *)
(***************************************************************************)

\* C5: a broker whose connections are established and drop again within
\* 120 s max_reconnect_attempts times in a row, each drop followed by a
\* successful recreate of its client, eventually has the shutdown flag set.
C5_ShortLivedRunsEscalate ==
    (\E b \in Brokers : history[b].short_runs >= max_reconnect_attempts)
        ~> should_exit

\* C6: a broker whose connection attempts fail after the client was created
\* (refused with rc # 0 and dropped, or not completed within 10 s)
\* max_reconnect_attempts times in a row eventually has the shutdown flag set.
C6_FailedConnectsEscalate ==
    (\E b \in Brokers : history[b].failed_runs >= max_reconnect_attempts)
        ~> should_exit

(***************************************************************************)
(* Properties of the reconnect delay, checked under SpecBackoff.           *)
(***************************************************************************)

\* min(max_delay, initial_delay * backoff^k), backoff = 3/2
BackoffDelay(k) ==
    Min(max_reconnect_delay, (initial_reconnect_delay * 3 ^ k) \div 2 ^ k)

\* C11: after k consecutive failed reconnect attempts to a broker, the
\* reconnect delay equals min(max_delay, initial_delay * backoff^k), and it
\* never exceeds max_delay.
C11_DelayFollowsBackoff ==
    /\ reconnect_delay <= max_reconnect_delay
    /\ \A b \in Brokers :
          (config[b] /\ history[b].attempts \in 0..(MaxCounted - 1)) =>
              reconnect_delay = BackoffDelay(history[b].attempts)

(***************************************************************************)
(* Properties of the device link, checked under SpecLink.                  *)
(***************************************************************************)

\* the task is between a serial write and the end of its read; for
\* get_device_stats, from its first write to the end of its last read
InDialogue(t) ==
    \/ serial.task[t].pc = "written"
    \/ t = "stats" /\ serial.task[t].pc = "locked" /\ serial.task[t].n > 1

\* the step is port I/O of task t
PortIO(t) ==
    \/ WriteRequest(t)
    \/ ReadResponse(t)
    \/ t = "main" /\ \E got \in BOOLEAN : ReadLine(got)

\* C12: at most one task is between its serial write and the end of its
\* read; read_line reads no bytes while another task's dialogue is in
\* flight, and no other task does serial I/O between the first write and
\* the last read of one get_device_stats call.
C12_OneDialogueAtATime ==
    [][/\ Cardinality({t \in LinkTasks : InDialogue(t)}) <= 1
       /\ Cardinality({t \in LinkTasks : InDialogue(t)})' <= 1
       /\ \A t \in LinkTasks : InDialogue(t) =>
              \A u \in LinkTasks \ {t} : ~PortIO(u)
      ]_vars

\* the stats reporter is at its third subcommand while a command handler and
\* the main task wait for the lock it holds
C12_StatsHoldTheOthersOff ==
    /\ serial.task["stats"].pc = "written" /\ serial.task["stats"].n = NumStatCommands
    /\ serial.task["cmd0"].pc = "waiting"
    /\ serial.task["main"].pc = "waiting"
    /\ serial.task["cmd0"].dev = serial.task["stats"].dev
    /\ serial.task["main"].dev = serial.task["stats"].dev

(***************************************************************************)
(* Properties of publishing, checked under SpecPublish.                    *)
(***************************************************************************)

\* the step is a call of safe_publish
SafePublishCall ==
    \E kind \in EventKinds, accepted \in [1..NumBrokers -> BOOLEAN] :
        SafePublish(kind, accepted)

\* C19: a safe_publish call made while the global connected flag is false
\* adds exactly one to publish_failures, calls no broker client's publish,
\* returns false, and queues nothing for a later retry: nothing else changes.
C19_SkippedWhenNotConnected ==
    [][(~mqtt_connected /\ SafePublishCall)
          => /\ stats'.publish_failures = stats.publish_failures + 1
             /\ published'.op = "safe_publish"
             /\ published'.calls = {}
             /\ ~published'.result
             /\ UNCHANGED <<mqtt_clients, mqtt_connected, main, last_response,
                            resp_count, serial>>
      ]_vars

\* two calls in a row have been skipped with every broker disconnected
C19_TwoCallsSkipped ==
    /\ ~mqtt_connected
    /\ \A i \in 1..Len(mqtt_clients) : ~mqtt_clients[i].connected
    /\ published.op = "safe_publish" /\ published.calls = {} /\ ~published.result
    /\ stats.publish_failures = 2

\* C20: for a broker configured with qos = 1, every publish of a packet,
\* debug or status event to that broker, the online status published by the
\* on-connect callback included, is sent with QoS 0; among the calls made
\* for such a broker only the command subscription (and the serial response)
\* uses QoS 1.
C20_ConfiguredQos1SentAtQos0 ==
    \A c \in published.calls :
        broker_qos[c.broker_idx] = 1
            => /\ c.kind \in EventKinds => c.qos = 0
               /\ c.qos = 1 => c.kind = "subscribe"

\* C21: every online status message, the one published by the on-connect
\* callback and the one published each stats interval, is published with
\* retain = false, whatever the configuration of the broker.
C21_StatusNeverRetained ==
    \A c \in published.calls : c.kind = "status" => ~c.retain

(***************************************************************************)
(* Properties of the broker credentials, checked under SpecToken.          *)
(***************************************************************************)

HasClaim(t, name) == \E c \in t.claims : c[1] = name

\* the latest call returned a token as the password
TokenReturned == credentials.username = "v1_AA"

\* the claims of token t fit the configuration of broker b
ClaimsFit(t, b) ==
    /\ (HasClaim(t, "owner") \/ HasClaim(t, "email"))
           => (broker_auth[b].tls_enabled /\ broker_auth[b].tls_verify)
    /\ HasClaim(t, "client")
    /\ HasClaim(t, "aud") <=> broker_auth[b].audience # NoValue

\* C22: no token minted, cached or returned from the cache as the credential
\* of a broker carries an owner or email claim unless that broker has tls
\* enabled and verified; the client claim is always there, and aud is there
\* iff an audience is configured.
C22_IdentityOnlyOverVerifiedTls ==
    /\ \A b \in Brokers :
          token_cache.entries[b].has => ClaimsFit(token_cache.entries[b].token, b)
    /\ TokenReturned => ClaimsFit(credentials.password, credentials.broker_idx)

\* broker 0 has owner and email configured but no verified tls, and the
\* token returned for it from the cache carries neither, while the token
\* cached for broker 1 over verified tls carries both
C22_CachedWithoutIdentity ==
    /\ broker_auth[0].owner # NoValue /\ broker_auth[0].email # NoValue
    /\ ~broker_auth[0].tls_verify
    /\ TokenReturned /\ credentials.broker_idx = 0 /\ ~credentials.minted
    /\ ~HasClaim(credentials.password, "owner")
    /\ ~HasClaim(credentials.password, "email")
    /\ token_cache.entries[1].has
    /\ HasClaim(token_cache.entries[1].token, "owner")
    /\ HasClaim(token_cache.entries[1].token, "email")

\* the call returns the cached token of broker b and leaves the cache alone
ReturnsCached(b) ==
    /\ credentials' = Credentials(b, "v1_AA", token_cache.entries[b].token, FALSE)
    /\ UNCHANGED token_cache

\* the call mints a token, returns it and puts it into the cache entry of
\* broker b and of no other broker
ReturnsMinted(b) ==
    /\ credentials'.broker_idx = b /\ credentials'.minted
    /\ credentials'.username = "v1_AA"
    /\ \A c \in Brokers : token_cache.entries[c].has
                              => credentials'.password # token_cache.entries[c].token
    /\ token_cache'.entries[b] =
          [has |-> TRUE, token |-> credentials'.password, age |-> 0]
    /\ \A c \in Brokers \ {b} : token_cache'.entries[c] = token_cache.entries[c]

\* the call returns (None, None) and leaves the cache alone
ReturnsNone(b) ==
    /\ credentials' = None(b)
    /\ UNCHANGED token_cache

\* C23 (as stated): for a token-auth broker a call without forced refresh
\* returns the cached token iff one was cached for that broker less than
\* token_ttl - 300 seconds ago; otherwise, and on every forced refresh, a
\* new token is minted and replaces the cache entry of that broker only.
C23_CachedIffFreshElseMinted ==
    [][\A b \in Brokers, force_refresh \in BOOLEAN, mint_ok \in BOOLEAN :
          (/\ broker_auth[b].method = "token"
           /\ GenerateAuthCredentials(b, force_refresh, mint_ok))
              => IF /\ ~force_refresh /\ token_cache.entries[b].has
                    /\ token_cache.entries[b].age < token_ttl - RefreshMargin
                 THEN ReturnsCached(b)
                 ELSE ReturnsMinted(b)
      ]_vars

\* C23 (amended): as stated for a node that has its private key and a codec
\* that creates the token; without the private key, or if create_token
\* raises, the call returns no credentials and leaves the cache as it is.
C23_CachedIffFreshElseMintedIfPossible ==
    [][\A b \in Brokers, force_refresh \in BOOLEAN, mint_ok \in BOOLEAN :
          (/\ broker_auth[b].method = "token"
           /\ GenerateAuthCredentials(b, force_refresh, mint_ok))
              => IF ~repeater_priv_key
                 THEN ReturnsNone(b)
                 ELSE IF /\ ~force_refresh /\ token_cache.entries[b].has
                         /\ token_cache.entries[b].age < token_ttl - RefreshMargin
                 THEN ReturnsCached(b)
                 ELSE IF mint_ok
                 THEN ReturnsMinted(b)
                 ELSE ReturnsNone(b)
      ]_vars

\* the token of broker 1 was minted a second time, and 600 seconds later a
\* call for broker 1 got that second token from the cache; nothing was ever
\* cached for broker 0
C23_SecondTokenReused ==
    /\ token_cache.minted = 2
    /\ token_cache.entries[1].has /\ token_cache.entries[1].token.serial = 2
    /\ token_cache.entries[1].age = 600
    /\ ~token_cache.entries[0].has
    /\ credentials = Credentials(1, "v1_AA", token_cache.entries[1].token, FALSE)

(***************************************************************************)
(* Properties of the running bridge and its shutdown, checked under        *)
(* SpecRunning.                                                            *)
(***************************************************************************)

\* the step is an on-disconnect callback for broker b
DisconnectOf(b) ==
    \E k \in Holders : RecordAt(k).broker_idx = b /\ OnDisconnect(k)

\* record r but for the state of its client's link
Fields(r) == [r EXCEPT !.client.link = "connecting"]

\* the step makes a reconnect attempt for the record of broker b
AttemptsReconnect(b) ==
    /\ main.pc = "tick" /\ main.i <= Len(mqtt_clients)
    /\ mqtt_clients[main.i].broker_idx = b
    /\ \/ main'.pc = "tick_install"
       \/ Fields(mqtt_clients'[main.i]) # Fields(mqtt_clients[main.i])

\* C24: an on-disconnect callback that runs while the shutdown flag is set
\* only sets connected = false on the matching broker record: reconnect_at,
\* failed_attempts, connecting_since, reconnect_delay, the keepalive-task
\* table and the reconnect history are unchanged, and no reconnect attempt
\* follows.
C24_ShutdownDisconnectOnlyMarks ==
    [][\A b \in Brokers :
          /\ (should_exit /\ DisconnectOf(b))
                => /\ Len(mqtt_clients') = Len(mqtt_clients)
                   /\ \A i \in 1..Len(mqtt_clients) :
                         Fields(mqtt_clients'[i]) =
                             IF i = FirstRecordOf(mqtt_clients, b)
                             THEN [Fields(mqtt_clients[i]) EXCEPT !.connected = FALSE]
                             ELSE Fields(mqtt_clients[i])
                   /\ UNCHANGED <<reconnect_delay, ws_ping_threads, stats>>
          /\ history[b].shutdown = "yes" => ~AttemptsReconnect(b)
      ]_vars

\* the record of a running bridge after the on-disconnect callback, as the
\* claim gives it
AfterDisconnectAsClaimed(r) ==
    [r EXCEPT !.connected = FALSE,
              !.connecting_since = NoTime,
              !.reconnect_at = reconnect_delay,
              !.failed_attempts =
                  IF r.connect_time.zero THEN r.failed_attempts
                  ELSE IF r.connect_time.ago < 120 THEN r.failed_attempts + 1
                  ELSE 0]

\* C29: while the shutdown flag is clear, an on-disconnect callback for a
\* broker sets that record's connected = false, connecting_since = 0 and
\* reconnect_at = now + reconnect_delay; it increments failed_attempts by
\* exactly one if the connection had been established less than 120 s
\* before, resets it to 0 if it had been established 120 s or more before,
\* leaves it unchanged if the record never connected, and changes no other
\* broker's record.
C29_DisconnectSchedulesReconnect ==
    [][\A b \in Brokers :
          (~should_exit /\ DisconnectOf(b))
              => /\ Len(mqtt_clients') = Len(mqtt_clients)
                 /\ \A i \in 1..Len(mqtt_clients) :
                       Fields(mqtt_clients'[i]) =
                           IF i = FirstRecordOf(mqtt_clients, b)
                           THEN Fields(AfterDisconnectAsClaimed(mqtt_clients[i]))
                           ELSE Fields(mqtt_clients[i])
      ]_vars

\* broker 0 lost a connection that had lasted and has its counter at 0
\* again, broker 1 lost a young one and has counted it, and both wait for
\* their reconnect
C29_BothCasesSeen ==
    /\ ~should_exit
    /\ Len(mqtt_clients) = NumBrokers
    /\ ~mqtt_clients[1].connected /\ ~mqtt_clients[2].connected
    /\ ~mqtt_clients[1].connect_time.zero /\ mqtt_clients[1].connect_time.ago >= 120
    /\ mqtt_clients[1].failed_attempts = 0
    /\ ~mqtt_clients[2].connect_time.zero /\ mqtt_clients[2].connect_time.ago < 120
    /\ mqtt_clients[2].failed_attempts = 1
    /\ mqtt_clients[1].reconnect_at > 0 /\ mqtt_clients[2].reconnect_at > 0
    /\ history[0].shutdown = "no" /\ history[1].shutdown = "no"

\* where in the cleanup operation op on record i comes (0: nowhere)
CleanupAt(op, i) ==
    LET at == {k \in 1..Len(main.cleanup) : main.cleanup[k] = CleanupOp(op, i)}
    IN  IF at = {} THEN 0 ELSE CHOOSE k \in at : \A j \in at : k <= j

\* the cleanup went in the order the claim gives
CleanupInOrder ==
    /\ \A i \in 1..Len(mqtt_clients) :
          /\ CleanupAt("loop_stop", i) > 0
          /\ CleanupAt("loop_stop", i) < CleanupAt("disconnect", i)
          /\ mqtt_clients[i].connected
                => /\ CleanupAt("publish_offline", i) > 0
                   /\ CleanupAt("publish_offline", i) < CleanupAt("loop_stop", i)
                   /\ ~main.cleanup[CleanupAt("publish_offline", i)].retain
          /\ device = "open"
                => CleanupAt("disconnect", i) < CleanupAt("close_serial", 0)
    /\ \A k \in 1..Len(main.cleanup) : ~main.cleanup[k].retain

\* C25: once the shutdown flag is set while the main loop runs, the loop
\* calls the reconnect tick no more, it terminates and the cleanup runs; in
\* the cleanup the non-retained offline status is published on every broker
\* still marked connected before that broker's network loop is stopped and
\* its client disconnected, and the serial link is closed only after every
\* broker was disconnected.
C25_ShutdownLeavesLoopAndCleansUp ==
    /\ [][/\ (main.pc = "loop_top" /\ main'.pc = "tick") => ~should_exit
          /\ (should_exit /\ main.pc = "loop_top" /\ main' # main)
                => main'.pc = "done"]_vars
    /\ [](main.pc = "done" => CleanupInOrder)
    /\ (should_exit ~> main.pc = "done")

\* the bridge was shut down by a signal with broker 0 connected and broker 1
\* not, and the cleanup published the offline status on broker 0 alone
C25_CleanedUpWithOneConnected ==
    /\ main.pc = "done" /\ ~main.escalated
    /\ Len(mqtt_clients) = NumBrokers
    /\ mqtt_clients[1].connected /\ ~mqtt_clients[2].connected
    /\ CleanupAt("publish_offline", 1) > 0
    /\ CleanupAt("publish_offline", 2) = 0
    /\ CleanupAt("close_serial", 0) = Len(main.cleanup)

(***************************************************************************)
(* Properties of the getters and execute_command, checked under SpecQuery. *)
(***************************************************************************)

\* C26: a serial I/O error raised while a getter or execute_command talks
\* to the device is turned into a result value, None from the getter and
\* (False, reason) from execute_command, and never reaches the caller as an
\* exception; the same holds for calls made on a link after close().
C26_SerialErrorsBecomeResults ==
    /\ serial.query.pc # "raised"
    /\ (serial.query.pc = "returned" /\ serial.query.io_error)
          => serial.query.result = IF serial.query.method \in Getters
                                   THEN "None" ELSE "(False, reason)"

(***************************************************************************)
(* Properties of the line parser, checked under SpecParser.                *)
(***************************************************************************)

\* the line before the latest had the marker and the latest matches the
\* packet grammar
RawThenPacket ==
    /\ parser.lines >= 2
    /\ parser.before.line.raw # NoRaw
    /\ parser.latest.line.packet # "none"

\* what the claim says of the two lines
RawCarriedOver ==
    /\ ~parser.before.sent
    /\ parser.before.bytes = Len(parser.before.line.raw) \div 2
    /\ (parser.latest.sent /\ parser.latest.message.type = "PACKET")
          => parser.latest.message.raw = parser.before.line.raw

WithinClientIdLimits(id) ==
    /\ Bytes(id) <= MaxClientIdLen
    /\ \A i \in 1..Len(id) : id[i] \in AllowedChars

\* C28: sanitize_client_id is idempotent,
\* sanitize_client_id(sanitize_client_id(s)) = sanitize_client_id(s) for
\* every name s under the same prefix, and its result never exceeds 23 bytes
\* and contains only characters of [A-Za-z0-9_-].
C28_SanitizeIdempotentAndBounded ==
    /\ client_id.pc \in {"once", "twice"} => WithinClientIdLimits(client_id.value)
    /\ client_id.pc = "twice"
          => /\ WithinClientIdLimits(client_id.again)
             /\ client_id.again = client_id.value

\* C28 as the function has it: the result never exceeds 23 bytes and
\* contains only characters of [A-Za-z0-9_-]; applied to its own result it
\* puts the prefix in front once more, so that the second result is the
\* stripped prefix followed by the first result, cut at 23 characters, which
\* is the first result if the stripped prefix is empty.
C28_SanitizeBoundedAndPrefixing ==
    /\ client_id.pc \in {"once", "twice"} => WithinClientIdLimits(client_id.value)
    /\ client_id.pc = "twice"
          => /\ WithinClientIdLimits(client_id.again)
             /\ client_id.again
                  = Truncated(Stripped(client_id.prefix) \o client_id.value)
             /\ Stripped(client_id.prefix) = <<>>
                  => client_id.again = client_id.value

\* a name with a space, a stripped character and a two-byte character was
\* sanitized under the default prefix, and sanitizing the result gave
\* another client id
C28_PrefixedTwice ==
    /\ client_id.pc = "twice"
    /\ client_id.name = <<" ", "@", "U+00E9">>
    /\ client_id.value = <<"m", "e", "s", "h", "c", "o", "r", "e", "_", "_">>
    /\ client_id.again # client_id.value
    /\ Len(client_id.again) = 19

(***************************************************************************)
(* Properties of the reconnect tick, checked under SpecReconnect.          *)
(***************************************************************************)

\* the step is the reconnect tick's visit of the record at i
VisitOf(i) ==
    /\ main.pc = "tick" /\ main.i = i
    /\ \E ok \in BOOLEAN, jitter \in Jitter : TickVisit(ok, jitter)

\* the record is connected, or its connecting_since is non-zero and less
\* than 10 s old, or its reconnect_at is still in the future
NotDue(r) ==
    \/ r.connected
    \/ ~r.connecting_since.zero /\ r.connecting_since.ago < 10
    \/ r.reconnect_at > 0

\* C30: a reconnect tick issues no connect attempt for, and leaves unchanged
\* the client, the token cache entry and every field of, any broker record
\* that is connected, or whose connecting_since is non-zero and less than
\* 10 s old, or whose reconnect_at is still in the future.
C30_TickPassesOverNotDue ==
    [][\A i \in 1..Len(mqtt_clients) :
          (VisitOf(i) /\ NotDue(mqtt_clients[i]))
              => /\ mqtt_clients' = mqtt_clients
                 /\ main'.pc # "tick_install"
                 /\ main'.new_client_info = NoRecord
                 /\ token_cache'.entries[mqtt_clients[i].broker_idx]
                        = token_cache.entries[mqtt_clients[i].broker_idx]
                 /\ UNCHANGED <<ws_ping_threads, reconnect_delay, should_exit>>
      ]_vars

\* the tick has passed over the record of broker 0, which waits for its
\* reconnect with the token of the startup still in the cache, and has
\* recreated no client yet
C30_PassedOverWaiting ==
    /\ main.pc = "tick" /\ main.i = 2
    /\ ~mqtt_clients[1].connected
    /\ mqtt_clients[1].reconnect_at > 0
    /\ mqtt_clients[1].client.loop = "running"
    /\ token_cache.on /\ token_cache.minted = 1
    /\ token_cache.entries[0].has /\ token_cache.entries[0].token.serial = 1

(***************************************************************************)
(* Properties of the re-creation of clients, checked under SpecRecreate.   *)
(***************************************************************************)

\* the step is a reconnect attempt for the record at i: the tick visits it,
\* neither passes it over nor gives up, and creates a client or fails to
AttemptOf(i) ==
    /\ VisitOf(i)
    /\ ~TickSkips(mqtt_clients[i])
    /\ ~TickEscalates(mqtt_clients[i])

\* the token was minted after the cache had counted n tokens
MintedAfter(token, n) == token.serial > n

\* C31: every reconnect attempt for a broker, whether it succeeds or fails,
\* first removes that broker's token-cache entry: the entry it leaves and the
\* credentials of the re-created client are never a token minted before the
\* attempt, an absent entry stays absent unless the attempt mints one, and
\* the entries of the other brokers are unchanged.
C31_AttemptDropsCachedToken ==
    [][\A i \in 1..Len(mqtt_clients) :
          AttemptOf(i) =>
              LET b == mqtt_clients[i].broker_idx
              IN  /\ \A o \in Brokers \ {b} :
                         token_cache'.entries[o] = token_cache.entries[o]
                  /\ \/ token_cache'.entries[b] = NoEntry
                     \/ /\ token_cache'.entries[b].has
                        /\ MintedAfter(token_cache'.entries[b].token, token_cache.minted)
                  /\ credentials'.broker_idx = b
                  /\ credentials'.username # "None"
                         => /\ credentials'.minted
                            /\ MintedAfter(credentials'.password, token_cache.minted)
                            /\ token_cache'.entries[b].token = credentials'.password
      ]_vars

\* an attempt for broker 0 has succeeded with a token minted in it, while
\* the still fresh token of the startup of broker 1 is in the cache as it was
C31_RecreatedWithNewToken ==
    /\ main.pc = "tick_install"
    /\ main.new_client_info.broker_idx = 0
    /\ credentials = Credentials(0, "v1_AA", MintedToken(0, 3), TRUE)
    /\ token_cache.entries[0].token = MintedToken(0, 3)
    /\ token_cache.entries[1].token = MintedToken(1, 2)
    /\ IsFresh(token_cache.entries[1])

(***************************************************************************)
(* Properties of the startup, checked under SpecStartup.                   *)
(***************************************************************************)

\* a call of connect_all_brokers is in progress
InConnectAll == main.pc \in {"connect_all", "cab_append", "cab_wait"}

\* the step is the return of connect_all_brokers with state.mqtt_connected set
ReportsConnected == main.pc = "cab_wait" /\ CabResult /\ mqtt_connected

\* C32: the startup calls connect_all_brokers at most 10 times (a call runs
\* only after fewer than 10 have failed); the stats reporter is started and
\* the main loop entered exactly by a call that reported a connected broker,
\* and otherwise the startup returns after 10 failed calls with the shutdown
\* flag set, the reporter and the main loop not started.
C32_StartupTriesTenTimes ==
    [][/\ InConnectAll' => main'.retry_count + 1 <= max_initial_retries
       /\ InStartup => /\ ~main.stats_thread
                       /\ ReportsConnected <=> main'.pc = "loop_top"
                       /\ main'.stats_thread <=> main'.pc = "loop_top"
                       /\ ~InStartup' /\ ~ReportsConnected
                              => /\ main'.pc = "returned"
                                 /\ main.retry_count = max_initial_retries
                                 /\ should_exit'
       /\ main.pc = "returned" => main'.pc = "returned" /\ ~main'.stats_thread
      ]_vars

\* ten calls have failed: the startup has returned
C32_GaveUp ==
    /\ main.pc = "returned"
    /\ should_exit
    /\ ~main.stats_thread

(***************************************************************************)
(* Properties of the main loop's reading, checked under SpecLink.          *)
(***************************************************************************)

\* C33: in a main-loop tick where the device link is open and read_line
\* returns no line, the main task either closes and reopens the link (the
\* watchdog) or leaves it open and untouched and goes on to its next tick;
\* it does not leave the loop.
C33_SilentTickStaysInLoop ==
    [][ReadLine(FALSE)
          => /\ serial'.task["main"].pc \in {"idle", "recover"}
             /\ serial'.open = serial.open
             /\ serial'.current = serial.current
      ]_vars

(***************************************************************************)
(* Properties of the keepalive tasks, checked under SpecPing.              *)
(***************************************************************************)

\* the task t was told to stop
ToldToStop(t) == t <= Len(ping_tasks.tasks) /\ ping_tasks.tasks[t].told # "no"

\* the task t has returned
Exited(t) == t <= Len(ping_tasks.tasks) /\ ping_tasks.tasks[t].pc = "exited"

\* C34: a keepalive task that was told to stop for its broker, by
\* stop_websocket_ping_thread or by the on-disconnect callback, eventually
\* returns and sends no PING after it was told, also when a new client and a
\* new keepalive task for the same broker are started before it wakes up
\* (so that of the tasks of a broker only the latest stays alive).
C34_StoppedKeepaliveExits ==
    /\ \A t \in 1..MaxPingTasks : ToldToStop(t) ~> Exited(t)
    /\ [](\A t \in 1..Len(ping_tasks.tasks) : ~ping_tasks.tasks[t].late_ping)

(***************************************************************************)
(* Properties of the connected flags, checked under SpecRunning.           *)
(***************************************************************************)

\* the main task is between two reconnect ticks
BetweenTicks == main.pc = "loop_top"

\* at least one broker record has connected = true
SomeRecordConnected == \E i \in 1..Len(mqtt_clients) : mqtt_clients[i].connected

\* C35: while the shutdown flag is clear, in every state between callbacks
\* and reconnect ticks, mqtt_connected is true iff at least one broker record
\* has connected = true.
C35_FlagIffSomeRecordConnected ==
    (~should_exit /\ BetweenTicks) => (mqtt_connected <=> SomeRecordConnected)

\* the client of the record r has had its on-connect callback with rc = 0
\* and no on-disconnect callback since
ClientConnected(r) == r.client.loop = "running" /\ r.client.link = "up"

\* C36: a successful on-connect callback (rc = 0) for a client created by
\* the initial connect or by the reconnect loop leaves the record holding
\* that client with connected = true, however the callback and the main
\* task's appending or installing of that record interleave: every record of
\* the list whose client is connected has connected = true.
C36_ConnectedClientMarksItsRecord ==
    \A i \in 1..Len(mqtt_clients) :
        ClientConnected(mqtt_clients[i]) => mqtt_clients[i].connected

(***************************************************************************)
(* Properties of the replay protection over time, checked under SpecReplay.*)
(***************************************************************************)

\* the step is the arrival at broker b's callback of an envelope that was
\* executed before and whose exp has not passed
Resubmitted(b) ==
    /\ handler[b].pc = "idle"
    /\ \E env \in LongLived :
          /\ Payload(env) \in executed.envs
          /\ HandleStart(b, env)
          /\ env.has_exp /\ clock <= env.exp

\* C38: no envelope is executed more than once during its validity period:
\* an already executed envelope that is submitted again while its exp has
\* not passed does not get past the replay check on its way to
\* execute_command, also when more than nonce_ttl seconds have passed since
\* its execution and its nonce was purged.
C38_ExecutedEnvelopeNotRepeated ==
    [][\A b \in Brokers : Resubmitted(b) => handler'[b].pc # "verify"]_vars

(***************************************************************************)
(* Properties of execute_command's result, checked under SpecQuery.        *)
(***************************************************************************)

\* results of execute_command with ok = true
OkResults == {"(True, text)", "(True, (no output))"}

\* C39: execute_command returns ok = true only if the device produced output
\* before the timeout elapsed; when the device stays silent for the whole
\* timeout it returns ok = false with a failure reason.
C39_SilentDeviceIsAFailure ==
    [][\A response \in Responses :
          (serial.query.method = "execute_command" /\ QueryRead(response))
              => /\ serial'.query.result \in OkResults => response # "nothing"
                 /\ response = "nothing" => serial'.query.result = "(False, reason)"
      ]_vars

(***************************************************************************)
(* Properties of the stats reporter, checked under SpecLink.               *)
(***************************************************************************)

\* the main task has left its loop, so that the shutdown flag is set
MainShutsDown == serial.task["main"].pc \in {"cleanup", "last_closing", "done"}

\* C40: the stats reporter keeps running until the shutdown flag is set,
\* however the main loop's closing, reopening or losing of the device link
\* interleaves with it: the shared device reference becoming none, or being
\* closed, between the reporter's check and its get_device_stats call does
\* not end the reporter.
C40_ReporterRunsUntilShutdown ==
    [][(serial.task["stats"].pc # "dead" /\ serial'.task["stats"].pc = "dead")
          => MainShutsDown]_vars

====
